---- MODULE Spec2Model ----
(***************************************************************************)
(* PluginManager (packages/core/src/plugin.ts) and MediaUploader           *)
(* (packages/core/src/media-uploader.ts) of fluxmedia as a state machine. *)
(*                                                                         *)
(* Every async method is split at its await points: the step that calls a *)
(* method runs its synchronous prefix up to the first await, and one step *)
(* per awaited promise settles that promise and runs the continuation up  *)
(* to the next await or to the return.  A client picks up the settled     *)
(* promise with Return.                                                    *)
(***************************************************************************)
EXTENDS Integers, Sequences, FiniteSets, TLC

\* ------------------------------------------------------------------ bounds
\* Registry-changing calls (register, unregister, clear) issued in one run.
MaxCalls == 3
\* Calls that may be in flight at the same time under SpecConc.
MaxInFlight == 2
\* Elements of the array handed to uploadMultiple, deleteMultiple, registerAll.
MaxBatch == 2
\* Tokens (names and dots) of the string handed to supports.
MaxPathLen == 5
\* Largest maxRetries handed to withRetry.
MaxRetries == 2

Tasks == 1..MaxInFlight

\* ------------------------------------------------- plugins (FluxMediaPlugin)
None == "none"

PluginIds == {"A1", "A2", "B", "C"}

\* The plugin objects handed to the manager.  A1 and A2 share a name, so one
\* overrides the other; C has no lifecycle callbacks and only a beforeUpload
\* hook that returns nothing.  A1 and B also hook into delete; A1, A2 and B
\* hook into URL generation.
Plugin ==
  [p \in PluginIds |->
     CASE p = "A1" -> [name |-> "A", hasInit |-> TRUE, hasDestroy |-> TRUE,
                       hooks |-> {"beforeUpload", "afterUpload", "onError",
                                  "beforeDelete", "afterDelete", "beforeGetUrl"}]
       [] p = "A2" -> [name |-> "A", hasInit |-> TRUE, hasDestroy |-> TRUE,
                       hooks |-> {"beforeUpload", "onError", "beforeGetUrl"}]
       [] p = "B"  -> [name |-> "B", hasInit |-> TRUE, hasDestroy |-> TRUE,
                       hooks |-> {"beforeUpload", "afterUpload", "onError",
                                  "beforeDelete", "afterDelete", "beforeGetUrl"}]
       [] OTHER    -> [name |-> "C", hasInit |-> FALSE, hasDestroy |-> FALSE,
                       hooks |-> {"beforeUpload"}]]

Names == {Plugin[p].name : p \in PluginIds}

\* ------------------------------------------------------------------- data
Files == {"f1", "f2"}
EmptyOptions == [folder |-> "", tags |-> <<>>]
OptionsIn == {EmptyOptions, [folder |-> "u", tags |-> <<>>]}

NoResult == [id |-> "", folder |-> "", tags |-> <<>>, x |-> <<>>]
NoError == [isError |-> FALSE, code |-> "", message |-> ""]

\* What provider.upload may reject with: a typed error, or a thrown value
\* that is not an Error instance.
ProviderErrors ==
  {[isError |-> TRUE, code |-> "NETWORK_ERROR", message |-> "net"],
   [isError |-> FALSE, code |-> "", message |-> "boom"]}

\* The error a plugin callback throws.
HookError(p, hook) == [isError |-> TRUE, code |-> hook, message |-> p]

\* error instanceof Error ? error : new Error(String(error))
ToError(e) == IF e.isError THEN e ELSE [isError |-> TRUE, code |-> "", message |-> e.message]

\* Mutant of ErrorContext: the caller's arguments instead of the processed ones.
ErrorContextOriginal(file, options, processedFile, processedOptions) ==
  [file |-> file, options |-> options]

\* The context object upload's catch block hands to runOnError.
ErrorContext(file, options, processedFile, processedOptions) ==
  [file |-> processedFile, options |-> processedOptions]

\* provider.upload(file, options) on success: metadata starts empty.
ProviderUpload(file, options) ==
  [id |-> file, folder |-> options.folder, tags |-> options.tags, x |-> <<>>]

\* beforeUpload of each plugin: a {file, options} pair or nothing (void).
BeforeUploadHook(p, file, options) ==
  CASE p = "A1" -> [void |-> FALSE, file |-> file,
                    options |-> [options EXCEPT !.folder = "A"]]
    [] p = "A2" -> [void |-> FALSE, file |-> "opt", options |-> options]
    [] p = "B"  -> [void |-> FALSE, file |-> file,
                    options |-> [options EXCEPT !.tags = <<"B">>]]
    [] OTHER    -> [void |-> TRUE, file |-> "", options |-> EmptyOptions]

\* afterUpload of each plugin: A1 sets metadata.x = 1, B increments it.
AfterUploadHook(p, result) ==
  CASE p = "A1" -> [result EXCEPT !.x = <<1>>]
    [] p = "B"  -> [result EXCEPT !.x = IF @ = <<>> THEN <<1>> ELSE <<@[1] + 1>>]
    [] OTHER    -> result

\* The ids delete is called with.
Ids == {"i1", "i2"}

\* beforeDelete of each plugin: a string, or nothing.  A1 moves the id into
\* its own namespace; B rewrites one id of that namespace and answers the
\* empty string for every other id.
BeforeDeleteHook(p, id) ==
  CASE p = "A1" -> (CASE id = "i1" -> "j1" [] id = "i2" -> "j2" [] OTHER -> id)
    [] p = "B"  -> (IF id = "j1" THEN "k1" ELSE "")
    [] OTHER    -> ""

\* The transform getUrl is called with; "" stands for undefined.
Transforms == {"", "t1"}

\* beforeGetUrl of each plugin: an {id, transform} object, or nothing.  A1
\* sets a transform, B rewrites the id and leaves transform out of its
\* answer, A2 answers nothing.
BeforeGetUrlHook(p, id, transform) ==
  CASE p = "A1" -> [void |-> FALSE, id |-> id, transform |-> "w100"]
    [] p = "B"  -> [void |-> FALSE, id |-> IF id = "i1" THEN "b1" ELSE "b2",
                    transform |-> ""]
    [] OTHER    -> [void |-> TRUE, id |-> "", transform |-> ""]

\* provider.getUrl(id, transform): the URL is made of both.
ProviderGetUrl(id, transform) == <<"url", id, transform>>

\* provider.get(id) on success.
ProviderGet(id) == [id |-> id, folder |-> "", tags |-> <<>>, x |-> <<>>]

\* What the backend answers to the adapter's delete request.
DeleteResponses == {"ok", "not found", "error"}

\* The error an adapter's delete rejects with.
DeleteFailed == [isError |-> TRUE, code |-> "DELETE_FAILED", message |-> "delete"]

\* Mutant of AdapterDeleteResolves: only an "ok" answer is a success.
AdapterDeleteResolvesOkOnly(resp) == resp = "ok"

\* provider.delete(id) given the backend's answer: a missing asset is a
\* success, any other failure rejects with DELETE_FAILED.
AdapterDeleteResolves(resp) == resp \in {"ok", "not found"}

\* ------------------------------------------------ the registry (a JS Map)
\* pluginCache is a Map: a sequence of plugins with pairwise distinct names,
\* in insertion order of the names.
CacheIndex(c, n) ==
  IF \E i \in 1..Len(c) : Plugin[c[i]].name = n
  THEN CHOOSE i \in 1..Len(c) : Plugin[c[i]].name = n
  ELSE 0

CacheGet(c, n) == IF CacheIndex(c, n) = 0 THEN None ELSE c[CacheIndex(c, n)]

CacheHas(c, n) == CacheIndex(c, n) # 0

\* Mutant of CacheSet: a new key goes first.
CacheSetFront(c, p) ==
  IF CacheIndex(c, Plugin[p].name) = 0
  THEN <<p>> \o c
  ELSE [c EXCEPT ![CacheIndex(c, Plugin[p].name)] = p]

\* Mutant of CacheSet: an overridden key moves to the end.
CacheSetMovesToEnd(c, p) ==
  Append(SelectSeq(c, LAMBDA q : Plugin[q].name # Plugin[p].name), p)

\* Map.set: an existing key keeps its position, a new key goes last.
CacheSet(c, p) ==
  IF CacheIndex(c, Plugin[p].name) = 0
  THEN Append(c, p)
  ELSE [c EXCEPT ![CacheIndex(c, Plugin[p].name)] = p]

\* Mutant of CacheDelete: the oldest entry is dropped, whatever its key.
CacheDeleteOldest(c, n) == IF c = <<>> THEN c ELSE Tail(c)

\* Map.delete
CacheDelete(c, n) == SelectSeq(c, LAMBDA q : Plugin[q].name # n)

\* ------------------------------------------------------------------ state
VARIABLES
  pluginCache,     \* PluginManager.pluginCache
  orderedPlugins,  \* PluginManager.orderedPlugins
  cacheInvalid,    \* PluginManager.cacheInvalid
  task,            \* the calls in flight, one record per slot
  initCount,       \* per plugin object: init() invocations so far
  destroyCount,    \* per plugin object: destroy() invocations so far
  installs,        \* per plugin object: times pluginCache.set stored it
  removals,        \* per plugin object: times it left pluginCache
  threw,           \* some init/destroy callback has thrown
  registered,      \* plugins of the register calls that resolved, in order
  regsOnly,        \* no unregister, clear or rejected register so far
  calls            \* registry-changing calls issued so far

mgr == <<pluginCache, orderedPlugins, cacheInvalid>>
life == <<initCount, destroyCount, installs, removals, threw>>
hist == <<registered, regsOnly, calls>>
vars == <<pluginCache, orderedPlugins, cacheInvalid, task, initCount, destroyCount,
          installs, removals, threw, registered, regsOnly, calls>>

\* One recorded call of a plugin callback or of the provider.
Ev(kind, p, file, options, result, error) ==
  [kind |-> kind, plugin |-> p, file |-> file, options |-> options,
   result |-> result, error |-> error, id |-> "", transform |-> ""]

\* A lifecycle event of plugin p (init or destroy, begin or end).
LEv(kind, p) == Ev(kind, p, "", EmptyOptions, NoResult, NoError)

\* An event of the delete pipeline: the id handed over, or the error thrown.
DEv(kind, p, id, error) ==
  [Ev(kind, p, "", EmptyOptions, NoResult, error) EXCEPT !.id = id]

\* A call that takes (id, transform), or (id) with transform left out.
GEv(kind, p, id, transform) ==
  [Ev(kind, p, "", EmptyOptions, NoResult, NoError) EXCEPT !.id = id,
                                                           !.transform = transform]

IdleTask ==
  [op |-> "idle", pc |-> "idle", plugin |-> None, existing |-> None, name |-> "",
   size0 |-> 0, file |-> "", options |-> EmptyOptions, curFile |-> "",
   curOptions |-> EmptyOptions, list |-> <<>>, idx |-> 0, result |-> NoResult,
   error |-> NoError, errArg |-> NoError, ret |-> <<>>, removed |-> FALSE,
   trace |-> <<>>, id |-> "", curId |-> "", resp |-> "", inflight |-> {},
   cache0 |-> <<>>, exec0 |-> <<>>, batch |-> "none", args |-> <<>>, items |-> <<>>,
   k |-> 0,
   results |-> <<>>, btrace |-> <<>>, bdone |-> FALSE, supported |-> FALSE,
   transform |-> "", curTransform |-> "", url |-> <<>>, hasSearch |-> FALSE,
   alias |-> FALSE, query |-> "", cfg |-> <<>>, attempt |-> 0, value |-> "",
   uploading |-> FALSE, progress |-> 0, overlapped |-> FALSE]

Init ==
  /\ pluginCache = <<>>
  /\ orderedPlugins = <<>>
  /\ cacheInvalid = FALSE
  /\ task = [t \in Tasks |-> IdleTask]
  /\ initCount = [p \in PluginIds |-> 0]
  /\ destroyCount = [p \in PluginIds |-> 0]
  /\ installs = [p \in PluginIds |-> 0]
  /\ removals = [p \in PluginIds |-> 0]
  /\ threw = FALSE
  /\ registered = <<>>
  /\ regsOnly = TRUE
  /\ calls = 0

\* The call of a slot has settled; an element of a batch call settles the
\* batch call only when its loop is over.
Settled(tk) == tk.pc \in {"resolved", "rejected"} /\ (tk.batch = "none" \/ tk.bdone)

\* The arrays of at most n elements of S.
SeqsUpTo(S, n) == UNION {[1..m -> S] : m \in 0..n}

\* rebuildCacheIfNeeded(): the value orderedPlugins has after it.
Rebuilt == IF cacheInvalid THEN pluginCache ELSE orderedPlugins

\* ----------------------------------------------------------------- register
\* if (existing?.destroy)
AwaitsDestroy(existing) == existing # None /\ Plugin[existing].hasDestroy

\* Lines 118-127 of register: install, mark dirty, start init or return.
RegisterInstall(t, tk) ==
  LET p == tk.plugin
      displaced == CacheGet(pluginCache, Plugin[p].name)
  IN /\ pluginCache' = CacheSet(pluginCache, p)
     /\ cacheInvalid' = TRUE
     /\ installs' = [installs EXCEPT ![p] = @ + 1]
     /\ removals' = IF displaced = None THEN removals
                    ELSE [removals EXCEPT ![displaced] = @ + 1]
     /\ IF Plugin[p].hasInit
          THEN /\ initCount' = [initCount EXCEPT ![p] = @ + 1]
               /\ task' = [task EXCEPT ![t] =
                    [tk EXCEPT !.pc = "init",
                               !.trace = Append(@, LEv("init.begin", p))]]
          ELSE /\ UNCHANGED initCount
               /\ task' = [task EXCEPT ![t] = [tk EXCEPT !.pc = "resolved"]]
     /\ UNCHANGED orderedPlugins

\* Mutant of RegisterCall: existing.destroy() is started but not awaited.
RegisterCallNoAwait(t, p) ==
  /\ task[t].op = "idle"
  /\ calls < MaxCalls
  /\ calls' = calls + 1
  /\ LET existing == CacheGet(pluginCache, Plugin[p].name)
         tk == [IdleTask EXCEPT !.op = "register", !.plugin = p,
                                !.existing = existing, !.name = Plugin[p].name,
                                !.size0 = Len(pluginCache)]
     IN IF existing # None /\ Plugin[existing].hasDestroy
          THEN /\ destroyCount' = [destroyCount EXCEPT ![existing] = @ + 1]
               /\ RegisterInstall(t, [tk EXCEPT !.trace = <<LEv("destroy.begin", existing)>>])
          ELSE /\ RegisterInstall(t, tk)
               /\ UNCHANGED destroyCount
  /\ UNCHANGED <<threw, registered, regsOnly>>

\* Lines 110-117 of register, run by the slot whose record is base.
RegisterStart(t, base, p) ==
  LET existing == CacheGet(pluginCache, Plugin[p].name)
      tk == [base EXCEPT !.op = "register", !.plugin = p,
                         !.existing = existing, !.name = Plugin[p].name,
                         !.size0 = Len(pluginCache), !.trace = <<>>]
  IN IF AwaitsDestroy(existing)
       THEN /\ destroyCount' = [destroyCount EXCEPT ![existing] = @ + 1]
            /\ task' = [task EXCEPT ![t] =
                 [tk EXCEPT !.pc = "destroy",
                            !.trace = <<LEv("destroy.begin", existing)>>]]
            /\ UNCHANGED <<mgr, initCount, installs, removals>>
       ELSE /\ RegisterInstall(t, tk)
            /\ UNCHANGED destroyCount

\* register(plugin) up to its first await.
RegisterCall(t, p) ==
  /\ task[t].op = "idle"
  /\ calls < MaxCalls
  /\ calls' = calls + 1
  /\ RegisterStart(t, [IdleTask EXCEPT !.cache0 = pluginCache], p)
  /\ UNCHANGED <<threw, registered, regsOnly>>

\* await existing.destroy() settles.
RegisterDestroySettled(t, ok) ==
  /\ task[t].op = "register" /\ task[t].pc = "destroy"
  /\ IF ok
       THEN /\ RegisterInstall(t, [task[t] EXCEPT !.trace =
                    Append(@, LEv("destroy.end", task[t].existing))])
            /\ UNCHANGED <<destroyCount, threw>>
       ELSE /\ task' = [task EXCEPT ![t] =
                 [@ EXCEPT !.pc = "rejected",
                           !.error = HookError(task[t].existing, "destroy"),
                           !.trace = Append(@, LEv("destroy.throw", task[t].existing))]]
            /\ threw' = TRUE
            /\ UNCHANGED <<mgr, initCount, destroyCount, installs, removals>>
  /\ UNCHANGED hist

\* Mutant of RegisterInitSettled: a failed init takes the plugin out of the
\* registry again.
RegisterInitSettledRollsBack(t, ok) ==
  /\ task[t].op = "register" /\ task[t].pc = "init"
  /\ task' = [task EXCEPT ![t] =
       IF ok THEN [@ EXCEPT !.pc = "resolved",
                            !.trace = Append(@, LEv("init.end", task[t].plugin))]
             ELSE [@ EXCEPT !.pc = "rejected",
                            !.error = HookError(task[t].plugin, "init"),
                            !.trace = Append(@, LEv("init.throw", task[t].plugin))]]
  /\ threw' = (threw \/ ~ok)
  /\ pluginCache' = IF ok THEN pluginCache ELSE CacheDelete(pluginCache, task[t].name)
  /\ UNCHANGED <<orderedPlugins, cacheInvalid, initCount, destroyCount, installs,
                 removals, hist>>

\* await plugin.init() settles.
RegisterInitSettled(t, ok) ==
  /\ task[t].op = "register" /\ task[t].pc = "init"
  /\ task' = [task EXCEPT ![t] =
       IF ok THEN [@ EXCEPT !.pc = "resolved",
                            !.trace = Append(@, LEv("init.end", task[t].plugin))]
             ELSE [@ EXCEPT !.pc = "rejected",
                            !.error = HookError(task[t].plugin, "init"),
                            !.trace = Append(@, LEv("init.throw", task[t].plugin))]]
  /\ threw' = (threw \/ ~ok)
  /\ UNCHANGED <<mgr, initCount, destroyCount, installs, removals, hist>>

\* --------------------------------------------------------------- unregister
\* A clear() in flight iterates pluginCache.values() with a live Map iterator:
\* its idx counts the live entries it has passed.  Deleting the entry at
\* position j takes one passed entry away from every iterator beyond it.
IteratorsAfterDelete(tasks, j) ==
  [u \in DOMAIN tasks |->
     IF tasks[u].op = "clear" /\ tasks[u].pc = "destroy" /\ j # 0 /\ j <= tasks[u].idx
     THEN [tasks[u] EXCEPT !.idx = @ - 1]
     ELSE tasks[u]]

\* Map.clear() empties the entry list: every live iterator has passed nothing.
IteratorsAfterClear(tasks) ==
  [u \in DOMAIN tasks |->
     IF tasks[u].op = "clear" /\ tasks[u].pc = "destroy"
     THEN [tasks[u] EXCEPT !.idx = 0]
     ELSE tasks[u]]

\* Mutant of UnregisterDelete: the dirty flag is left as it was.
UnregisterDeleteKeepsFlag(t, tk) ==
  LET j == CacheIndex(pluginCache, tk.name)
      gone == CacheGet(pluginCache, tk.name)
  IN /\ pluginCache' = CacheDelete(pluginCache, tk.name)
     /\ removals' = IF gone = None THEN removals ELSE [removals EXCEPT ![gone] = @ + 1]
     /\ task' = [IteratorsAfterDelete(task, j) EXCEPT ![t] =
                   [tk EXCEPT !.pc = "resolved", !.removed = TRUE]]
     /\ UNCHANGED <<orderedPlugins, cacheInvalid>>

\* Lines 156-158 of unregister: delete, mark dirty, return true.
UnregisterDelete(t, tk) ==
  LET j == CacheIndex(pluginCache, tk.name)
      gone == CacheGet(pluginCache, tk.name)
  IN /\ pluginCache' = CacheDelete(pluginCache, tk.name)
     /\ cacheInvalid' = TRUE
     /\ removals' = IF gone = None THEN removals ELSE [removals EXCEPT ![gone] = @ + 1]
     /\ task' = [IteratorsAfterDelete(task, j) EXCEPT ![t] =
                   [tk EXCEPT !.pc = "resolved", !.removed = TRUE]]
     /\ UNCHANGED orderedPlugins

\* unregister(name) up to its first await.
UnregisterCall(t, n) ==
  /\ task[t].op = "idle"
  /\ calls < MaxCalls
  /\ calls' = calls + 1
  /\ registered' = <<>>
  /\ regsOnly' = FALSE
  /\ LET plugin == CacheGet(pluginCache, n)
         tk == [IdleTask EXCEPT !.op = "unregister", !.plugin = plugin, !.name = n,
                                !.size0 = Len(pluginCache), !.cache0 = pluginCache,
                                !.exec0 = Rebuilt]
     IN IF plugin = None
          THEN /\ task' = [task EXCEPT ![t] = [tk EXCEPT !.pc = "resolved"]]
               /\ UNCHANGED <<mgr, destroyCount, removals>>
          ELSE IF Plugin[plugin].hasDestroy
            THEN /\ destroyCount' = [destroyCount EXCEPT ![plugin] = @ + 1]
                 /\ task' = [task EXCEPT ![t] =
                      [tk EXCEPT !.pc = "destroy",
                                 !.trace = <<LEv("destroy.begin", plugin)>>]]
                 /\ UNCHANGED <<mgr, removals>>
            ELSE /\ UnregisterDelete(t, tk)
                 /\ UNCHANGED destroyCount
  /\ UNCHANGED <<initCount, installs, threw>>

\* await plugin.destroy() settles.
UnregisterDestroySettled(t, ok) ==
  /\ task[t].op = "unregister" /\ task[t].pc = "destroy"
  /\ IF ok
       THEN /\ UnregisterDelete(t, [task[t] EXCEPT !.trace =
                    Append(@, LEv("destroy.end", task[t].plugin))])
            /\ UNCHANGED threw
       ELSE /\ task' = [task EXCEPT ![t] =
                 [@ EXCEPT !.pc = "rejected",
                           !.error = HookError(task[t].plugin, "destroy"),
                           !.trace = Append(@, LEv("destroy.throw", task[t].plugin))]]
            /\ threw' = TRUE
            /\ UNCHANGED <<mgr, removals>>
  /\ UNCHANGED <<initCount, destroyCount, installs, hist>>

\* -------------------------------------------------------------------- clear
\* Mutant of NextDestroy: the entry at `from` is passed over.
NextDestroySkipsOne(c, from) ==
  IF \E i \in (from + 1)..Len(c) : Plugin[c[i]].hasDestroy
  THEN CHOOSE i \in (from + 1)..Len(c) :
         /\ Plugin[c[i]].hasDestroy
         /\ \A k \in (from + 1)..(i - 1) : ~Plugin[c[k]].hasDestroy
  ELSE 0

\* The first index >= from whose plugin has callback/hook h, or 0.
NextDestroy(c, from) ==
  IF \E i \in from..Len(c) : Plugin[c[i]].hasDestroy
  THEN CHOOSE i \in from..Len(c) :
         /\ Plugin[c[i]].hasDestroy
         /\ \A k \in from..(i - 1) : ~Plugin[c[k]].hasDestroy
  ELSE 0

\* The for loop of clear from entry `from` on, up to the next await or the end.
ClearLoop(t, tk, from) ==
  LET i == NextDestroy(pluginCache, from)
  IN IF i # 0
       THEN /\ destroyCount' = [destroyCount EXCEPT ![pluginCache[i]] = @ + 1]
            /\ task' = [task EXCEPT ![t] =
                 [tk EXCEPT !.pc = "destroy", !.idx = i, !.plugin = pluginCache[i],
                            !.trace = Append(@, LEv("destroy.begin", pluginCache[i]))]]
            /\ UNCHANGED <<mgr, removals>>
       ELSE /\ pluginCache' = <<>>
            /\ orderedPlugins' = <<>>
            /\ cacheInvalid' = FALSE
            /\ removals' = [p \in PluginIds |->
                 IF \E k \in 1..Len(pluginCache) : pluginCache[k] = p
                 THEN removals[p] + 1 ELSE removals[p]]
            /\ task' = [IteratorsAfterClear(task) EXCEPT ![t] = [tk EXCEPT !.pc = "resolved"]]
            /\ UNCHANGED destroyCount

\* clear() up to its first await.
ClearCall(t) ==
  /\ task[t].op = "idle"
  /\ calls < MaxCalls
  /\ calls' = calls + 1
  /\ registered' = <<>>
  /\ regsOnly' = FALSE
  /\ ClearLoop(t, [IdleTask EXCEPT !.op = "clear", !.size0 = Len(pluginCache),
                                   !.cache0 = pluginCache], 1)
  /\ UNCHANGED <<initCount, installs, threw>>

\* await plugin.destroy() settles inside clear's loop.
ClearDestroySettled(t, ok) ==
  /\ task[t].op = "clear" /\ task[t].pc = "destroy"
  /\ IF ok
       THEN /\ ClearLoop(t, [task[t] EXCEPT !.trace =
                    Append(@, LEv("destroy.end", task[t].plugin))], task[t].idx + 1)
            /\ UNCHANGED threw
       ELSE /\ task' = [task EXCEPT ![t] =
                 [@ EXCEPT !.pc = "rejected",
                           !.error = HookError(task[t].plugin, "destroy"),
                           !.trace = Append(@, LEv("destroy.throw", task[t].plugin))]]
            /\ threw' = TRUE
            /\ UNCHANGED <<mgr, destroyCount, removals>>
  /\ UNCHANGED <<initCount, installs, hist>>

\* ------------------------------------------------------------------- getAll
\* Mutant of Spread: the array itself is handed out.
SameArray(arr) == [value |-> arr, alias |-> TRUE]

\* [...arr]: a new array with the same elements.
Spread(arr) == [value |-> arr, alias |-> FALSE]

\* getAll(): rebuild, then a copy of the list.
GetAll(t) ==
  /\ task[t].op = "idle"
  /\ orderedPlugins' = Rebuilt
  /\ cacheInvalid' = FALSE
  /\ task' = [task EXCEPT ![t] =
       [IdleTask EXCEPT !.op = "getAll", !.pc = "resolved",
                        !.ret = Spread(Rebuilt).value, !.alias = Spread(Rebuilt).alias,
                        !.cache0 = pluginCache]]
  /\ UNCHANGED <<pluginCache, life, hist>>

\* ------------------------------------------------------------------- upload
\* The first index >= from of list whose plugin defines hook h, or 0: the
\* `if (plugin.hooks.h)` test of every hook runner's loop.
NextHook(list, from, h) ==
  IF \E i \in from..Len(list) : h \in Plugin[list[i]].hooks
  THEN CHOOSE i \in from..Len(list) :
         /\ h \in Plugin[list[i]].hooks
         /\ \A k \in from..(i - 1) : h \notin Plugin[list[k]].hooks
  ELSE 0

\* Mutant of Accumulate: the hook's return value is taken without the test.
AccumulateAlways(curFile, curOptions, r) == [file |-> r.file, options |-> r.options]

\* if (result) { currentFile = result.file; currentOptions = result.options }
Accumulate(curFile, curOptions, r) ==
  IF r.void THEN [file |-> curFile, options |-> curOptions]
            ELSE [file |-> r.file, options |-> r.options]

\* Mutant of Landed: the pipeline goes on while the awaited call is in flight.
StillInFlight(tk, kind, p) == tk

\* `await x` resumes only once x has settled: the call is no longer in flight.
Landed(tk, kind, p) == [tk EXCEPT !.inflight = @ \ {<<kind, p>>}]

\* A hook of plugin p, or a provider method (p = None), has been invoked and
\* its promise is pending.
Invoked(tk, kind, p) == [tk EXCEPT !.inflight = @ \cup {<<kind, p>>}]

\* Mutant of ProviderCall: the provider gets the caller's file and options.
ProviderCallOriginalArgs(tk) ==
  [Invoked(tk, "provider.upload", None) EXCEPT !.pc = "provider",
             !.trace = Append(@, Ev("provider.upload", None, tk.file, tk.options,
                                    NoResult, NoError))]

\* provider.upload(processedFile, processedOptions) is called.
ProviderCall(tk) ==
  [Invoked(tk, "provider.upload", None) EXCEPT !.pc = "provider",
             !.trace = Append(@, Ev("provider.upload", None, tk.curFile, tk.curOptions,
                                    NoResult, NoError))]

\* Mutant of BeforeLoop: every iteration reads the list the registry has now.
BeforeLoopLive(tk, from) ==
  LET i == NextHook(Rebuilt, from, "beforeUpload")
  IN IF i # 0
       THEN [Invoked(tk, "beforeUpload", Rebuilt[i]) EXCEPT !.pc = "beforeUpload", !.idx = i,
                       !.list = Rebuilt,
                       !.trace = Append(@, Ev("beforeUpload", Rebuilt[i], tk.curFile,
                                              tk.curOptions, NoResult, NoError))]
       ELSE ProviderCall([tk EXCEPT !.list = Rebuilt])

\* runBeforeUpload's loop from entry `from` on, up to the next await; when the
\* loop ends upload goes on to the provider call.
BeforeLoop(tk, from) ==
  LET i == NextHook(tk.list, from, "beforeUpload")
  IN IF i # 0
       THEN [Invoked(tk, "beforeUpload", tk.list[i]) EXCEPT !.pc = "beforeUpload", !.idx = i,
                       !.trace = Append(@, Ev("beforeUpload", tk.list[i], tk.curFile,
                                              tk.curOptions, NoResult, NoError))]
       ELSE ProviderCall(tk)

\* Mutant of AfterLoop: the loop ends after the first afterUpload hook.
AfterLoopFirstOnly(tk, from) ==
  LET i == NextHook(tk.list, from, "afterUpload")
  IN IF i # 0 /\ from = 1
       THEN [Invoked(tk, "afterUpload", tk.list[i]) EXCEPT !.pc = "afterUpload", !.idx = i,
                       !.trace = Append(@, Ev("afterUpload", tk.list[i], "", EmptyOptions,
                                              tk.result, NoError))]
       ELSE [tk EXCEPT !.pc = "resolved"]

\* runAfterUpload's loop from entry `from` on; when it ends upload returns.
AfterLoop(tk, from) ==
  LET i == NextHook(tk.list, from, "afterUpload")
  IN IF i # 0
       THEN [Invoked(tk, "afterUpload", tk.list[i]) EXCEPT !.pc = "afterUpload", !.idx = i,
                       !.trace = Append(@, Ev("afterUpload", tk.list[i], "", EmptyOptions,
                                              tk.result, NoError))]
       ELSE [tk EXCEPT !.pc = "resolved"]

\* runOnError's loop from entry `from` on; when it ends upload rethrows.
OnErrorLoop(tk, from) ==
  LET i == NextHook(tk.list, from, "onError")
      ctx == ErrorContext(tk.file, tk.options, tk.curFile, tk.curOptions)
  IN IF i # 0
       THEN [Invoked(tk, "onError", tk.list[i]) EXCEPT !.pc = "onError", !.idx = i,
                       !.trace = Append(@, Ev("onError", tk.list[i], ctx.file, ctx.options,
                                              NoResult, tk.errArg))]
       ELSE [tk EXCEPT !.pc = "rejected"]

\* Mutant of BeforeUploadThrown: the failing plugin is skipped and the chain
\* goes on with the next one.
BeforeUploadThrownSkipped(tk, p) ==
  BeforeLoop([tk EXCEPT !.trace = Append(@, Ev("beforeUpload.throw", p, "", EmptyOptions,
                                               NoResult, HookError(p, "beforeUpload")))],
             tk.idx + 1)

\* A beforeUpload hook threw: runBeforeUpload rejects, and upload, which awaits
\* it outside its try block, rejects with the same error.
BeforeUploadThrown(tk, p) ==
  [tk EXCEPT !.pc = "rejected", !.error = HookError(p, "beforeUpload"),
             !.trace = Append(@, Ev("beforeUpload.throw", p, "", EmptyOptions, NoResult,
                                    HookError(p, "beforeUpload")))]

\* The first steps of upload(file, options), run by the slot whose record is
\* base, up to its first await.
UploadStart(base, f, o) ==
  BeforeLoop([base EXCEPT !.op = "upload", !.file = f, !.options = o,
                          !.curFile = f, !.curOptions = o, !.list = Rebuilt,
                          !.trace = <<>>, !.result = NoResult, !.idx = 0], 1)

\* upload(file, options) up to its first await.
UploadCall(t, f, o) ==
  /\ task[t].op = "idle"
  /\ orderedPlugins' = Rebuilt
  /\ cacheInvalid' = FALSE
  /\ task' = [task EXCEPT ![t] = UploadStart(IdleTask, f, o)]
  /\ UNCHANGED <<pluginCache, life, hist>>

\* Mutant of BeforeUploadSettled: the accumulator is a field of the manager,
\* so a run resumes with what another upload in flight left in it.
BeforeUploadSettledShared(t, ok) ==
  /\ task[t].op = "upload" /\ task[t].pc = "beforeUpload"
  /\ LET p == task[t].list[task[t].idx]
         tk == Landed(task[t], "beforeUpload", p)
         others == {u \in Tasks \ {t} : task[u].op = "upload"}
         src == IF others = {} THEN tk ELSE task[CHOOSE u \in others : TRUE]
         acc == Accumulate(src.curFile, src.curOptions,
                           BeforeUploadHook(p, src.curFile, src.curOptions))
     IN task' = [task EXCEPT ![t] =
          IF ok
          THEN BeforeLoop([tk EXCEPT !.curFile = acc.file, !.curOptions = acc.options],
                          tk.idx + 1)
          ELSE BeforeUploadThrown(tk, p)]
  /\ UNCHANGED <<mgr, life, hist>>

\* await plugin.hooks.beforeUpload(...) settles.
BeforeUploadSettled(t, ok) ==
  /\ task[t].op = "upload" /\ task[t].pc = "beforeUpload"
  /\ LET p == task[t].list[task[t].idx]
         tk == Landed(task[t], "beforeUpload", p)
         acc == Accumulate(tk.curFile, tk.curOptions,
                           BeforeUploadHook(p, tk.curFile, tk.curOptions))
     IN task' = [task EXCEPT ![t] =
          IF ok
          THEN BeforeLoop([tk EXCEPT !.curFile = acc.file, !.curOptions = acc.options],
                          tk.idx + 1)
          ELSE BeforeUploadThrown(tk, p)]
  /\ UNCHANGED <<mgr, life, hist>>

\* The catch block of upload: runOnError(error as Error, context), then rethrow.
UploadCatch(t, tk, e) ==
  /\ orderedPlugins' = Rebuilt
  /\ cacheInvalid' = FALSE
  /\ task' = [task EXCEPT ![t] =
       OnErrorLoop([tk EXCEPT !.error = e, !.errArg = ToError(e), !.list = Rebuilt], 1)]

\* Mutant of ProviderResolved: runAfterUpload visits the list the upload
\* started with.
ProviderResolvedSnapshot(t) ==
  /\ task[t].op = "upload" /\ task[t].pc = "provider"
  /\ task' = [task EXCEPT ![t] =
       AfterLoop([Landed(task[t], "provider.upload", None)
                    EXCEPT !.result = ProviderUpload(task[t].curFile, task[t].curOptions)],
                 1)]
  /\ UNCHANGED <<mgr, life, hist>>

\* await provider.upload(...) resolves: runAfterUpload starts.
ProviderResolved(t) ==
  /\ task[t].op = "upload" /\ task[t].pc = "provider"
  /\ orderedPlugins' = Rebuilt
  /\ cacheInvalid' = FALSE
  /\ task' = [task EXCEPT ![t] =
       AfterLoop([Landed(task[t], "provider.upload", None)
                    EXCEPT !.result = ProviderUpload(task[t].curFile, task[t].curOptions),
                           !.list = Rebuilt], 1)]
  /\ UNCHANGED <<pluginCache, life, hist>>

\* await provider.upload(...) rejects with e.
ProviderRejected(t, e) ==
  /\ task[t].op = "upload" /\ task[t].pc = "provider"
  /\ UploadCatch(t, [Landed(task[t], "provider.upload", None) EXCEPT !.trace =
         Append(@, Ev("provider.throw", None, "", EmptyOptions, NoResult, e))], e)
  /\ UNCHANGED <<pluginCache, life, hist>>

\* await plugin.hooks.afterUpload(...) settles.
AfterUploadSettled(t, ok) ==
  /\ task[t].op = "upload" /\ task[t].pc = "afterUpload"
  /\ LET p == task[t].list[task[t].idx]
         tk == Landed(task[t], "afterUpload", p)
     IN IF ok
          THEN /\ task' = [task EXCEPT ![t] =
                    AfterLoop([tk EXCEPT !.result = AfterUploadHook(p, tk.result)], tk.idx + 1)]
               /\ UNCHANGED <<orderedPlugins, cacheInvalid>>
          ELSE UploadCatch(t, [tk EXCEPT !.trace =
                 Append(@, Ev("afterUpload.throw", p, "", EmptyOptions, NoResult,
                              HookError(p, "afterUpload")))],
                 HookError(p, "afterUpload"))
  /\ UNCHANGED <<pluginCache, life, hist>>

\* await plugin.hooks.onError(...) settles.
OnErrorSettled(t, ok) ==
  /\ task[t].op = "upload" /\ task[t].pc = "onError"
  /\ LET p == task[t].list[task[t].idx]
         tk == Landed(task[t], "onError", p)
     IN task' = [task EXCEPT ![t] =
          IF ok THEN OnErrorLoop(tk, tk.idx + 1)
                ELSE [tk EXCEPT !.pc = "rejected", !.error = HookError(p, "onError"),
                                !.trace = Append(@, Ev("onError.throw", p, "", EmptyOptions,
                                                       NoResult, HookError(p, "onError")))]]
  /\ UNCHANGED <<mgr, life, hist>>

\* ------------------------------------------------------------------- delete
\* if (result) { currentId = result }: the empty string and undefined are falsy.
ChainId(currentId, result) == IF result # "" THEN result ELSE currentId

\* Mutant of ProviderDeleteCall: the provider gets the caller's id.
ProviderDeleteCallOriginalId(tk) ==
  [Invoked(tk, "provider.delete", None) EXCEPT
     !.pc = "provider.delete",
     !.trace = Append(@, DEv("provider.delete", None, tk.id, NoError))]

\* provider.delete(processedId) is called.
ProviderDeleteCall(tk) ==
  [Invoked(tk, "provider.delete", None) EXCEPT
     !.pc = "provider.delete",
     !.trace = Append(@, DEv("provider.delete", None, tk.curId, NoError))]

\* runBeforeDelete's loop from entry `from` on; when it ends delete goes on to
\* the provider call.
BeforeDeleteLoop(tk, from) ==
  LET i == NextHook(tk.list, from, "beforeDelete")
  IN IF i # 0
       THEN [Invoked(tk, "beforeDelete", tk.list[i]) EXCEPT
               !.pc = "beforeDelete", !.idx = i,
               !.trace = Append(@, DEv("beforeDelete", tk.list[i], tk.curId, NoError))]
       ELSE ProviderDeleteCall(tk)

\* runAfterDelete's loop from entry `from` on; when it ends delete returns.
AfterDeleteLoop(tk, from) ==
  LET i == NextHook(tk.list, from, "afterDelete")
  IN IF i # 0
       THEN [Invoked(tk, "afterDelete", tk.list[i]) EXCEPT
               !.pc = "afterDelete", !.idx = i,
               !.trace = Append(@, DEv("afterDelete", tk.list[i], tk.curId, NoError))]
       ELSE [tk EXCEPT !.pc = "resolved"]

\* A call inside delete threw: delete has no try block, so it rejects.
DeleteThrown(tk, kind, p, e) ==
  [tk EXCEPT !.pc = "rejected", !.error = e,
             !.trace = Append(@, DEv(kind, p, "", e))]

\* The first steps of delete(id), up to its first await.
DeleteStart(tk, id) ==
  BeforeDeleteLoop([tk EXCEPT !.op = "delete", !.id = id, !.curId = id,
                              !.list = Rebuilt, !.trace = <<>>, !.error = NoError,
                              !.resp = "", !.idx = 0], 1)

\* delete(id) up to its first await.
DeleteCall(t, id) ==
  /\ task[t].op = "idle"
  /\ orderedPlugins' = Rebuilt
  /\ cacheInvalid' = FALSE
  /\ task' = [task EXCEPT ![t] = DeleteStart(IdleTask, id)]
  /\ UNCHANGED <<pluginCache, life, hist>>

\* await plugin.hooks.beforeDelete(currentId) settles.
BeforeDeleteSettled(t, ok) ==
  /\ task[t].op = "delete" /\ task[t].pc = "beforeDelete"
  /\ LET p == task[t].list[task[t].idx]
         tk == Landed(task[t], "beforeDelete", p)
     IN task' = [task EXCEPT ![t] =
          IF ok
          THEN BeforeDeleteLoop(
                 [tk EXCEPT !.curId = ChainId(tk.curId, BeforeDeleteHook(p, tk.curId))],
                 tk.idx + 1)
          ELSE DeleteThrown(tk, "beforeDelete.throw", p, HookError(p, "beforeDelete"))]
  /\ UNCHANGED <<mgr, life, hist>>

\* await provider.delete(processedId) settles, the backend having answered resp.
ProviderDeleteSettled(t, resp) ==
  /\ task[t].op = "delete" /\ task[t].pc = "provider.delete"
  /\ LET tk == [Landed(task[t], "provider.delete", None) EXCEPT !.resp = resp]
     IN IF AdapterDeleteResolves(resp)
          THEN /\ orderedPlugins' = Rebuilt
               /\ cacheInvalid' = FALSE
               /\ task' = [task EXCEPT ![t] = AfterDeleteLoop([tk EXCEPT !.list = Rebuilt], 1)]
          ELSE /\ task' = [task EXCEPT ![t] =
                    DeleteThrown(tk, "provider.delete.throw", None, DeleteFailed)]
               /\ UNCHANGED <<orderedPlugins, cacheInvalid>>
  /\ UNCHANGED <<pluginCache, life, hist>>

\* await plugin.hooks.afterDelete(id) settles.
AfterDeleteSettled(t, ok) ==
  /\ task[t].op = "delete" /\ task[t].pc = "afterDelete"
  /\ LET p == task[t].list[task[t].idx]
         tk == Landed(task[t], "afterDelete", p)
     IN task' = [task EXCEPT ![t] =
          IF ok THEN AfterDeleteLoop(tk, tk.idx + 1)
                ELSE DeleteThrown(tk, "afterDelete.throw", p, HookError(p, "afterDelete"))]
  /\ UNCHANGED <<mgr, life, hist>>

\* -------------------------------------------------------------- batch calls
\* Mutant of ForOf: the array is walked from its last element to its first.
ForOfReversed(items) == [i \in 1..Len(items) |-> items[Len(items) + 1 - i]]

\* for (const x of items): the elements in array order.
ForOf(items) == items

\* Mutant of BatchDone: a rejected batch still hands over the results it has.
BatchDonePartial(tk, pc) == [tk EXCEPT !.pc = pc, !.bdone = TRUE, !.ret = tk.results]

\* The record of a batch call whose loop has ended: `return results` after
\* the last element, or the rejection of the element that failed, which
\* leaves the results array behind.
BatchDone(tk, pc) ==
  [tk EXCEPT !.pc = pc, !.bdone = TRUE,
             !.ret = IF pc = "resolved" THEN tk.results ELSE <<>>]

\* The record of a batch call at the start of its loop.
BatchTask(op, items) ==
  [IdleTask EXCEPT !.op = op, !.batch = op, !.args = items, !.items = ForOf(items),
                   !.cache0 = pluginCache, !.exec0 = Rebuilt]

\* The element of a batch call has settled: the batch record with the
\* element's events filed, and its value pushed when it resolved.
ElementFiled(tk, value) ==
  [tk EXCEPT !.btrace = Append(@, tk.trace),
             !.results = IF tk.pc = "resolved" THEN Append(@, value) ELSE @]

\* uploadMultiple(files, options) up to its first await.
UploadMultipleCall(t, files, o) ==
  /\ task[t].op = "idle"
  /\ LET b == [BatchTask("uploadMultiple", files) EXCEPT !.options = o]
     IN IF b.items = <<>>
          THEN /\ task' = [task EXCEPT ![t] = BatchDone(b, "resolved")]
               /\ UNCHANGED <<orderedPlugins, cacheInvalid>>
          ELSE /\ task' = [task EXCEPT ![t] = UploadStart([b EXCEPT !.k = 1], b.items[1], o)]
               /\ orderedPlugins' = Rebuilt
               /\ cacheInvalid' = FALSE
  /\ UNCHANGED <<pluginCache, life, hist>>

\* results.push(await this.upload(file, options)) settles: the next file, the
\* return of results, or the rejection of the batch.
UploadMultipleNext(t) ==
  /\ task[t].batch = "uploadMultiple" /\ ~task[t].bdone
  /\ task[t].pc \in {"resolved", "rejected"}
  /\ LET b == ElementFiled(task[t], task[t].result)
     IN IF b.pc = "resolved" /\ b.k < Len(b.items)
          THEN /\ task' = [task EXCEPT ![t] =
                    UploadStart([b EXCEPT !.k = @ + 1], b.items[b.k + 1], b.options)]
               /\ orderedPlugins' = Rebuilt
               /\ cacheInvalid' = FALSE
          ELSE /\ task' = [task EXCEPT ![t] = BatchDone(b, b.pc)]
               /\ UNCHANGED <<orderedPlugins, cacheInvalid>>
  /\ UNCHANGED <<pluginCache, life, hist>>

\* deleteMultiple(ids) up to its first await.
DeleteMultipleCall(t, ids) ==
  /\ task[t].op = "idle"
  /\ LET b == BatchTask("deleteMultiple", ids)
     IN IF b.items = <<>>
          THEN /\ task' = [task EXCEPT ![t] = BatchDone(b, "resolved")]
               /\ UNCHANGED <<orderedPlugins, cacheInvalid>>
          ELSE /\ task' = [task EXCEPT ![t] = DeleteStart([b EXCEPT !.k = 1], b.items[1])]
               /\ orderedPlugins' = Rebuilt
               /\ cacheInvalid' = FALSE
  /\ UNCHANGED <<pluginCache, life, hist>>

\* await this.delete(id) settles: the next id, the return, or the rejection
\* of the batch.
DeleteMultipleNext(t) ==
  /\ task[t].batch = "deleteMultiple" /\ ~task[t].bdone
  /\ task[t].pc \in {"resolved", "rejected"}
  /\ LET b == ElementFiled(task[t], task[t].curId)
     IN IF b.pc = "resolved" /\ b.k < Len(b.items)
          THEN /\ task' = [task EXCEPT ![t] =
                    DeleteStart([b EXCEPT !.k = @ + 1], b.items[b.k + 1])]
               /\ orderedPlugins' = Rebuilt
               /\ cacheInvalid' = FALSE
          ELSE /\ task' = [task EXCEPT ![t] = BatchDone(b, b.pc)]
               /\ UNCHANGED <<orderedPlugins, cacheInvalid>>
  /\ UNCHANGED <<pluginCache, life, hist>>

\* registerAll(plugins) up to its first await.
RegisterAllCall(t, plugins) ==
  /\ task[t].op = "idle"
  /\ calls + Len(plugins) <= MaxCalls
  /\ calls' = calls + Len(plugins)
  /\ LET b == BatchTask("registerAll", plugins)
     IN IF b.items = <<>>
          THEN /\ task' = [task EXCEPT ![t] = BatchDone(b, "resolved")]
               /\ UNCHANGED <<mgr, initCount, destroyCount, installs, removals>>
          ELSE RegisterStart(t, [b EXCEPT !.k = 1], b.items[1])
  /\ UNCHANGED <<threw, registered, regsOnly>>

\* Mutant of RegisterAllNext: the loop ends after its first element.
RegisterAllNextFirstOnly(t) ==
  /\ task[t].batch = "registerAll" /\ ~task[t].bdone
  /\ task[t].pc \in {"resolved", "rejected"}
  /\ task' = [task EXCEPT ![t] =
       BatchDone(ElementFiled(task[t], task[t].plugin), task[t].pc)]
  /\ UNCHANGED <<mgr, life, hist>>

\* await this.register(plugin) settles: the next plugin, the return, or the
\* rejection of the batch.
RegisterAllNext(t) ==
  /\ task[t].batch = "registerAll" /\ ~task[t].bdone
  /\ task[t].pc \in {"resolved", "rejected"}
  /\ LET b == ElementFiled(task[t], task[t].plugin)
     IN IF b.pc = "resolved" /\ b.k < Len(b.items)
          THEN RegisterStart(t, [b EXCEPT !.k = @ + 1], b.items[b.k + 1])
          ELSE /\ task' = [task EXCEPT ![t] = BatchDone(b, b.pc)]
               /\ UNCHANGED <<mgr, initCount, destroyCount, installs, removals>>
  /\ UNCHANGED <<threw, hist>>

\* -------------------------------------------------------- get, getUrl
\* get(id): return this.provider.get(id).
GetCall(t, id) ==
  /\ task[t].op = "idle"
  /\ task' = [task EXCEPT ![t] =
       [Invoked([IdleTask EXCEPT !.op = "get", !.id = id, !.curId = id,
                                 !.cache0 = pluginCache, !.exec0 = orderedPlugins],
                "provider.get", None)
          EXCEPT !.pc = "provider.get",
                 !.trace = <<GEv("provider.get", None, id, "")>>]]
  /\ UNCHANGED <<mgr, life, hist>>

\* The promise of provider.get settles, and with it the one get returned.
GetSettled(t, ok) ==
  /\ task[t].op = "get" /\ task[t].pc = "provider.get"
  /\ LET tk == Landed(task[t], "provider.get", None)
     IN task' = [task EXCEPT ![t] =
          IF ok THEN [tk EXCEPT !.pc = "resolved", !.result = ProviderGet(tk.curId)]
                ELSE [tk EXCEPT !.pc = "rejected",
                                !.error = [isError |-> TRUE, code |-> "FILE_NOT_FOUND",
                                           message |-> tk.curId]]]
  /\ UNCHANGED <<mgr, life, hist>>

\* getUrl(id, transform): synchronous, return this.provider.getUrl(id, transform).
GetUrl(t, id, transform) ==
  /\ task[t].op = "idle"
  /\ task' = [task EXCEPT ![t] =
       [IdleTask EXCEPT !.op = "getUrl", !.pc = "resolved", !.id = id,
                        !.transform = transform, !.curId = id, !.curTransform = transform,
                        !.cache0 = pluginCache, !.exec0 = orderedPlugins,
                        !.trace = <<GEv("provider.getUrl", None, id, transform)>>,
                        !.url = ProviderGetUrl(id, transform)]]
  /\ UNCHANGED <<mgr, life, hist>>

\* Mutant of ProviderGetUrlCall: the provider gets the caller's arguments.
ProviderGetUrlCallOriginalArgs(tk) ==
  [tk EXCEPT !.pc = "resolved",
             !.trace = Append(@, GEv("provider.getUrl", None, tk.id, tk.transform)),
             !.url = ProviderGetUrl(tk.id, tk.transform)]

\* return this.provider.getUrl(processedId, processedTransform)
ProviderGetUrlCall(tk) ==
  [tk EXCEPT !.pc = "resolved",
             !.trace = Append(@, GEv("provider.getUrl", None, tk.curId, tk.curTransform)),
             !.url = ProviderGetUrl(tk.curId, tk.curTransform)]

\* runBeforeGetUrl's loop from entry `from` on; when it ends getUrlAsync calls
\* the provider and returns.
BeforeGetUrlLoop(tk, from) ==
  LET i == NextHook(tk.list, from, "beforeGetUrl")
  IN IF i # 0
       THEN [Invoked(tk, "beforeGetUrl", tk.list[i]) EXCEPT
               !.pc = "beforeGetUrl", !.idx = i,
               !.trace = Append(@, GEv("beforeGetUrl", tk.list[i], tk.curId,
                                       tk.curTransform))]
       ELSE ProviderGetUrlCall(tk)

\* getUrlAsync(id, transform) up to its first await.
GetUrlAsyncCall(t, id, transform) ==
  /\ task[t].op = "idle"
  /\ orderedPlugins' = Rebuilt
  /\ cacheInvalid' = FALSE
  /\ task' = [task EXCEPT ![t] =
       BeforeGetUrlLoop([IdleTask EXCEPT !.op = "getUrlAsync", !.id = id,
                                         !.transform = transform, !.curId = id,
                                         !.curTransform = transform, !.list = Rebuilt,
                                         !.cache0 = pluginCache], 1)]
  /\ UNCHANGED <<pluginCache, life, hist>>

\* await plugin.hooks.beforeGetUrl(currentId, currentTransform) settles.
BeforeGetUrlSettled(t, ok) ==
  /\ task[t].op = "getUrlAsync" /\ task[t].pc = "beforeGetUrl"
  /\ LET p == task[t].list[task[t].idx]
         tk == Landed(task[t], "beforeGetUrl", p)
         r == BeforeGetUrlHook(p, tk.curId, tk.curTransform)
     IN task' = [task EXCEPT ![t] =
          IF ok
          THEN BeforeGetUrlLoop(
                 IF r.void THEN tk
                 ELSE [tk EXCEPT !.curId = r.id, !.curTransform = r.transform],
                 tk.idx + 1)
          ELSE [tk EXCEPT !.pc = "rejected", !.error = HookError(p, "beforeGetUrl"),
                          !.trace = Append(@, DEv("beforeGetUrl.throw", p, "",
                                                  HookError(p, "beforeGetUrl")))]]
  /\ UNCHANGED <<mgr, life, hist>>

\* What a caller may do to the array getAll returned.
ArrayMutations == {"push", "splice", "reverse"}

\* arr.push(C), arr.splice(0, 1), arr.reverse()
Mutated(arr, m) ==
  CASE m = "push" -> Append(arr, "C")
    [] m = "splice" -> (IF arr = <<>> THEN arr ELSE Tail(arr))
    [] OTHER -> [i \in 1..Len(arr) |-> arr[Len(arr) + 1 - i]]

\* The caller changes the array it got from getAll (once); the manager's own
\* array changes with it only if it is the same object.
MutateReturned(t, m) ==
  /\ task[t].op = "getAll" /\ task[t].pc = "resolved" /\ task[t].k = 0
  /\ task' = [task EXCEPT ![t] = [@ EXCEPT !.ret = Mutated(@, m), !.k = 1]]
  /\ orderedPlugins' = IF task[t].alias THEN Mutated(task[t].ret, m) ELSE orderedPlugins
  /\ UNCHANGED <<pluginCache, cacheInvalid, life, hist>>

\* ------------------------------------------------------------------- search
\* The queries search is called with.
Queries == {"q1", "q2"}

\* provider.name
ProviderName == "s3"

\* provider.search(query) on success.
ProviderSearch(query) == <<ProviderGet(query)>>

\* new Error(`Search is not supported by ${this.provider.name} provider`): a
\* plain Error, without a code; the message is kept by the name it embeds.
SearchNotSupported == [isError |-> TRUE, code |-> "", message |-> ProviderName]

\* search(query) on an uploader whose provider defines search (has) or not.
SearchCall(t, query, has) ==
  /\ task[t].op = "idle"
  /\ LET tk == [IdleTask EXCEPT !.op = "search", !.query = query, !.hasSearch = has,
                                !.cache0 = pluginCache, !.exec0 = orderedPlugins]
     IN task' = [task EXCEPT ![t] =
          IF ~has
          THEN [tk EXCEPT !.pc = "rejected", !.error = SearchNotSupported]
          ELSE [Invoked(tk, "provider.search", None) EXCEPT
                  !.pc = "provider.search",
                  !.trace = <<GEv("provider.search", None, query, "")>>]]
  /\ UNCHANGED <<mgr, life, hist>>

\* The promise of provider.search settles, and with it the one search returned.
SearchSettled(t, e) ==
  /\ task[t].op = "search" /\ task[t].pc = "provider.search"
  /\ LET tk == Landed(task[t], "provider.search", None)
     IN task' = [task EXCEPT ![t] =
          IF e = NoError THEN [tk EXCEPT !.pc = "resolved", !.results = ProviderSearch(tk.query)]
                         ELSE [tk EXCEPT !.pc = "rejected", !.error = e]]
  /\ UNCHANGED <<mgr, life, hist>>

\* ----------------------------------------------------------------- supports
\* The argument of supports is a string, here a sequence of tokens: a token is
\* a dot or a word without dots, and the string is their concatenation.
Dot == "."
Words == {"capabilities", "signedUploads", "videoProcessing", "storage",
          "maxFileSize", "supportedFormats", "constructor"}
PathTokens == Words \cup {Dot}

\* provider.features: the kind of value at each key path of the matrix.
FeatureKind(at) ==
  CASE at = <<>> -> "object"
    [] at = <<"capabilities">> -> "object"
    [] at = <<"capabilities", "signedUploads">> -> "true"
    [] at = <<"capabilities", "videoProcessing">> -> "false"
    [] at = <<"storage">> -> "object"
    [] at = <<"storage", "maxFileSize">> -> "number"
    [] at = <<"storage", "supportedFormats">> -> "array"
    [] OTHER -> "undefined"

\* feature.split('.'): the pieces between the dots, each a sequence of words
\* (empty between two dots, at a leading or trailing dot, and for '').
RECURSIVE Split(_)
Split(str) ==
  IF \E i \in 1..Len(str) : str[i] = Dot
  THEN LET i == CHOOSE i \in 1..Len(str) :
                  str[i] = Dot /\ \A j \in 1..(i - 1) : str[j] # Dot
       IN <<SubSeq(str, 1, i - 1)>> \o Split(SubSeq(str, i + 1, Len(str)))
  ELSE <<str>>

\* typeof current === 'object' && current !== null
TypeofObject(current) == current.kind \in {"object", "array"}

\* part in current: own keys of the matrix and what every object inherits
\* from Object.prototype; a TypeError when current is not an object.
InOperator(part, current) ==
  IF ~TypeofObject(current) THEN "TypeError"
  ELSE IF Len(part) = 1 /\ (FeatureKind(Append(current.at, part[1])) # "undefined"
                             \/ part[1] = "constructor")
       THEN "true" ELSE "false"

\* current[part], for a part that is in current.
Member(current, part) ==
  IF FeatureKind(Append(current.at, part[1])) # "undefined"
  THEN [kind |-> FeatureKind(Append(current.at, part[1])), at |-> Append(current.at, part[1])]
  ELSE [kind |-> "function", at |-> <<>>]

\* Mutant of IsTrue: any truthy value counts.
IsTruthy(current) == current.kind \notin {"false", "undefined"}

\* current === true
IsTrue(current) == current.kind = "true"

\* The for loop of supports over the remaining parts, and its return.
RECURSIVE Walk(_, _)
Walk(current, parts) ==
  IF parts = <<>> THEN [threw |-> FALSE, value |-> IsTrue(current)]
  ELSE IF TypeofObject(current)
    THEN LET has == InOperator(Head(parts), current)
         IN IF has = "TypeError" THEN [threw |-> TRUE, value |-> FALSE]
            ELSE IF has = "true" THEN Walk(Member(current, Head(parts)), Tail(parts))
            ELSE [threw |-> FALSE, value |-> FALSE]
    ELSE [threw |-> FALSE, value |-> FALSE]

\* supports(feature)
Supports(feature) == Walk([kind |-> "object", at |-> <<>>], Split(feature))

\* A caller about to call supports(feature).
SupportsTask(feature) == [IdleTask EXCEPT !.op = "supports", !.pc = "call", !.args = feature]

\* supports(feature) runs: it is synchronous.
SupportsCall(t) ==
  /\ task[t].op = "supports" /\ task[t].pc = "call"
  /\ LET r == Supports(task[t].args)
     IN task' = [task EXCEPT ![t] =
          [@ EXCEPT !.pc = IF r.threw THEN "rejected" ELSE "resolved",
                    !.supported = r.value]]
  /\ UNCHANGED <<mgr, life, hist>>

\* ---------------------------------------------------------------- withRetry
\* DEFAULT_RETRYABLE_ERRORS
DefaultRetryableErrors == {"NETWORK_ERROR", "RATE_LIMITED", "UPLOAD_FAILED"}

\* The options withRetry is called with (after the ?? defaults): shouldRetry
\* and onRetry say whether the callback is given.
RetryConfigs ==
  [maxRetries : 0..MaxRetries, retryDelay : {10, 100}, exponentialBackoff : BOOLEAN,
   retryableErrors : {DefaultRetryableErrors, {"NETWORK_ERROR"}},
   onRetry : BOOLEAN, shouldRetry : BOOLEAN]

\* What fn may reject with: MediaErrors (they carry a code), plain Errors,
\* and a thrown string.
RetryThrown ==
  {[isError |-> TRUE, code |-> "NETWORK_ERROR", message |-> "Network error"],
   [isError |-> TRUE, code |-> "UPLOAD_FAILED", message |-> "Upload failed"],
   [isError |-> TRUE, code |-> "INVALID_FILE_TYPE", message |-> "Network error"],
   [isError |-> TRUE, code |-> "", message |-> "Connection TIMEOUT"],
   [isError |-> TRUE, code |-> "", message |-> "Custom error"],
   [isError |-> FALSE, code |-> "", message |-> "socket hang up"]}

\* message.toLowerCase() includes one of 'network', 'timeout', 'econnrefused',
\* 'econnreset', 'rate limit', 'socket hang up', for the messages above.
MessageLooksRetryable(message) ==
  message \in {"Network error", "Connection TIMEOUT", "socket hang up"}

\* error instanceof MediaError
IsMediaError(error) == error.isError /\ error.code # ""

\* Mutant of IsRetryableError: the message heuristics apply to every error.
IsRetryableErrorByMessage(error, retryableErrors) ==
  \/ IsMediaError(error) /\ error.code \in retryableErrors
  \/ MessageLooksRetryable(error.message)

\* isRetryableError(error, retryableErrors)
IsRetryableError(error, retryableErrors) ==
  IF IsMediaError(error) THEN error.code \in retryableErrors
  ELSE MessageLooksRetryable(error.message)

\* Math.pow(2, n)
RECURSIVE Pow2(_)
Pow2(n) == IF n = 0 THEN 1 ELSE 2 * Pow2(n - 1)

\* Mutant of RetryDelay: the exponent is the number of the retry.
RetryDelayOneAhead(config, attempt) ==
  IF config.exponentialBackoff THEN config.retryDelay * Pow2(attempt + 1)
  ELSE config.retryDelay

\* The delay computed after the failure of the zero-based attempt.
RetryDelay(config, attempt) ==
  IF config.exponentialBackoff THEN config.retryDelay * Pow2(attempt)
  ELSE config.retryDelay

\* An event of a withRetry call: fn called or settled, a callback called
\* with (n, error, delay), or sleep(delay).
REv(kind, n, error, delay) ==
  [kind |-> kind, n |-> n, error |-> error, delay |-> delay, answer |-> FALSE,
   value |-> ""]

\* config.shouldRetry(error, attempt) was called and gave answer.
SEv(attempt, error, answer) ==
  [REv("shouldRetry", attempt, error, 0) EXCEPT !.answer = answer]

\* What fn may resolve with.
RetryValues == {"v1", "v2"}

\* A caller about to call withRetry(fn, options).
RetryTask(config) == [IdleTask EXCEPT !.op = "withRetry", !.pc = "call", !.cfg = config]

\* for (...; attempt <= config.maxRetries; ...) { try { return await fn() ...:
\* fn is called, or the loop is over and lastError is thrown.
LoopHead(tk, attempt) ==
  IF attempt <= tk.cfg.maxRetries
  THEN [tk EXCEPT !.pc = "fn", !.attempt = attempt,
                  !.trace = Append(@, REv("fn", attempt, NoError, 0))]
  ELSE [tk EXCEPT !.pc = "rejected"]

\* withRetry(fn, options) up to its first await.
WithRetryCall(t) ==
  /\ task[t].op = "withRetry" /\ task[t].pc = "call"
  /\ task' = [task EXCEPT ![t] =
       LoopHead([@ EXCEPT !.error = [isError |-> TRUE, code |-> "",
                                     message |-> "Unknown error"]], 0)]
  /\ UNCHANGED <<mgr, life, hist>>

\* Mutant of FnResolved: the loop goes on after a success while attempts are
\* left.
FnResolvedGoesOn(t, v) ==
  /\ task[t].op = "withRetry" /\ task[t].pc = "fn"
  /\ LET tk == [task[t] EXCEPT !.value = v,
                   !.trace = Append(@, [REv("fn.ok", task[t].attempt, NoError, 0)
                                          EXCEPT !.value = v])]
     IN task' = [task EXCEPT ![t] =
          IF tk.attempt < tk.cfg.maxRetries THEN LoopHead(tk, tk.attempt + 1)
          ELSE [tk EXCEPT !.pc = "resolved"]]
  /\ UNCHANGED <<mgr, life, hist>>

\* await fn() resolves with v: withRetry returns the value.
FnResolved(t, v) ==
  /\ task[t].op = "withRetry" /\ task[t].pc = "fn"
  /\ task' = [task EXCEPT ![t] =
       [@ EXCEPT !.pc = "resolved", !.value = v,
                 !.trace = Append(@, [REv("fn.ok", task[t].attempt, NoError, 0)
                                        EXCEPT !.value = v])]]
  /\ UNCHANGED <<mgr, life, hist>>

\* Mutant of Decide: a custom shouldRetry is consulted after the defaults.
DecideDefaultsFirst(config, lastError, custom) ==
  IsRetryableError(lastError, config.retryableErrors)
    /\ (config.shouldRetry => custom)

\* config.shouldRetry ? config.shouldRetry(lastError, attempt)
\*                    : isRetryableError(lastError, config.retryableErrors),
\* custom being what the caller's shouldRetry answers.
Decide(config, lastError, custom) ==
  IF config.shouldRetry THEN custom
  ELSE IsRetryableError(lastError, config.retryableErrors)

\* Mutant of LastAttempt: the test is left to the loop's bound, so the catch
\* block goes on to onRetry and sleep after the last attempt too.
LastAttemptNever(config, attempt) == FALSE

\* Mutant of LastAttempt: the retries end one attempt early.
LastAttemptOneEarly(config, attempt) == attempt + 1 >= config.maxRetries

\* attempt === config.maxRetries
LastAttempt(config, attempt) == attempt = config.maxRetries

\* await fn() rejects with e: the catch block, up to the throw or the sleep.
FnRejected(t, e, custom) ==
  /\ task[t].op = "withRetry" /\ task[t].pc = "fn"
  /\ LET tk == task[t]
         lastError == ToError(e)
         shouldRetry == Decide(tk.cfg, lastError, custom)
         delay == RetryDelay(tk.cfg, tk.attempt)
         asked == Append(tk.trace, REv("fn.throw", tk.attempt, e, 0))
                  \o (IF tk.cfg.shouldRetry
                        THEN <<SEv(tk.attempt, lastError, custom)>> ELSE <<>>)
     IN task' = [task EXCEPT ![t] =
          IF LastAttempt(tk.cfg, tk.attempt) \/ ~shouldRetry
          THEN [tk EXCEPT !.pc = "rejected", !.error = lastError, !.trace = asked]
          ELSE [tk EXCEPT !.pc = "sleep", !.error = lastError,
                          !.trace = asked
                            \o (IF tk.cfg.onRetry
                                  THEN <<REv("onRetry", tk.attempt + 1, lastError, delay)>>
                                  ELSE <<>>)
                            \o <<REv("sleep", tk.attempt + 1, NoError, delay)>>]]
  /\ UNCHANGED <<mgr, life, hist>>

\* await sleep(delay) is over: attempt++ and the loop goes on.
SleepDone(t) ==
  /\ task[t].op = "withRetry" /\ task[t].pc = "sleep"
  /\ task' = [task EXCEPT ![t] = LoopHead(task[t], task[t].attempt + 1)]
  /\ UNCHANGED <<mgr, life, hist>>

\* ------------------------------------------------------------------- client
\* The caller's await of a settled call returns (or throws).
Return(t) ==
  /\ Settled(task[t])
  /\ task' = [task EXCEPT ![t] = IdleTask]
  /\ IF task[t].op = "register" \/ task[t].batch = "registerAll"
       THEN IF task[t].pc = "resolved" /\ regsOnly
              THEN /\ registered' = registered \o
                        (IF task[t].batch = "none" THEN <<task[t].plugin>>
                                                   ELSE task[t].items)
                   /\ UNCHANGED regsOnly
              ELSE /\ registered' = <<>>
                   /\ regsOnly' = FALSE
       ELSE UNCHANGED <<registered, regsOnly>>
  /\ UNCHANGED <<mgr, life, calls>>

\* One step of a call on the PluginManager.
ManagerStep(t) ==
  \/ \E p \in PluginIds : RegisterCall(t, p)
  \/ \E ok \in BOOLEAN : RegisterDestroySettled(t, ok)
  \/ \E ok \in BOOLEAN : RegisterInitSettled(t, ok)
  \/ \E n \in Names : UnregisterCall(t, n)
  \/ \E ok \in BOOLEAN : UnregisterDestroySettled(t, ok)
  \/ ClearCall(t)
  \/ \E ok \in BOOLEAN : ClearDestroySettled(t, ok)
  \/ GetAll(t)
  \/ Return(t)

\* One step of MediaUploader.upload.
UploadStep(t) ==
  \/ \E f \in Files, o \in OptionsIn : UploadCall(t, f, o)
  \/ \E ok \in BOOLEAN : BeforeUploadSettled(t, ok)
  \/ ProviderResolved(t)
  \/ \E e \in ProviderErrors : ProviderRejected(t, e)
  \/ \E ok \in BOOLEAN : AfterUploadSettled(t, ok)
  \/ \E ok \in BOOLEAN : OnErrorSettled(t, ok)

\* One step of MediaUploader.delete.
DeleteStep(t) ==
  \/ \E id \in Ids : DeleteCall(t, id)
  \/ \E ok \in BOOLEAN : BeforeDeleteSettled(t, ok)
  \/ \E resp \in DeleteResponses : ProviderDeleteSettled(t, resp)
  \/ \E ok \in BOOLEAN : AfterDeleteSettled(t, ok)

\* The awaits inside upload and delete, whoever called them.
PipelineStep(t) ==
  \/ \E ok \in BOOLEAN : BeforeUploadSettled(t, ok)
  \/ ProviderResolved(t)
  \/ \E e \in ProviderErrors : ProviderRejected(t, e)
  \/ \E ok \in BOOLEAN : AfterUploadSettled(t, ok)
  \/ \E ok \in BOOLEAN : OnErrorSettled(t, ok)
  \/ \E ok \in BOOLEAN : BeforeDeleteSettled(t, ok)
  \/ \E resp \in DeleteResponses : ProviderDeleteSettled(t, resp)
  \/ \E ok \in BOOLEAN : AfterDeleteSettled(t, ok)

\* One step of uploadMultiple, deleteMultiple or registerAll.
BatchStep(t) ==
  \/ \E files \in SeqsUpTo(Files, MaxBatch) : UploadMultipleCall(t, files, EmptyOptions)
  \/ UploadMultipleNext(t)
  \/ \E ids \in SeqsUpTo(Ids, MaxBatch) : DeleteMultipleCall(t, ids)
  \/ DeleteMultipleNext(t)
  \/ \E plugins \in SeqsUpTo(PluginIds, MaxBatch) : RegisterAllCall(t, plugins)
  \/ RegisterAllNext(t)
  \/ PipelineStep(t)

\* A client that awaits every call before it makes the next one.
Next == ManagerStep(1) \/ UploadStep(1) \/ DeleteStep(1)

Spec == Init /\ [][Next]_vars

\* Clients whose PluginManager calls overlap: up to MaxInFlight in flight.
NextConc == \E t \in Tasks : ManagerStep(t)

SpecConc == Init /\ [][NextConc]_vars

\* One step of register, whoever called it.
RegisterStep(t) ==
  \/ \E p \in PluginIds : RegisterCall(t, p)
  \/ \E ok \in BOOLEAN : RegisterDestroySettled(t, ok)
  \/ \E ok \in BOOLEAN : RegisterInitSettled(t, ok)

\* A client that registers plugins and makes batch calls, awaiting every call.
NextBatch == RegisterStep(1) \/ BatchStep(1) \/ Return(1)

SpecBatch == Init /\ [][NextBatch]_vars

\* One step of get, getUrl, getUrlAsync, search, getAll, or of the caller of
\* getAll on the array it got.
QueryStep(t) ==
  \/ \E id \in Ids : GetCall(t, id)
  \/ \E ok \in BOOLEAN : GetSettled(t, ok)
  \/ \E id \in Ids, tr \in Transforms : GetUrl(t, id, tr)
  \/ \E id \in Ids, tr \in Transforms : GetUrlAsyncCall(t, id, tr)
  \/ \E ok \in BOOLEAN : BeforeGetUrlSettled(t, ok)
  \/ \E q \in Queries, has \in BOOLEAN : SearchCall(t, q, has)
  \/ \E e \in ProviderErrors \cup {NoError} : SearchSettled(t, e)
  \/ GetAll(t)
  \/ \E m \in ArrayMutations : MutateReturned(t, m)

\* A client that registers plugins and queries, awaiting every call.
NextQuery == RegisterStep(1) \/ QueryStep(1) \/ Return(1)

SpecQuery == Init /\ [][NextQuery]_vars

\* One step of unregister, whoever called it.
UnregisterStep(t) ==
  \/ \E n \in Names : UnregisterCall(t, n)
  \/ \E ok \in BOOLEAN : UnregisterDestroySettled(t, ok)

\* One upload, not awaited, while the same client registers and unregisters
\* plugins, awaiting each of those calls.
NextOverlap ==
  \/ UploadCall(1, "f1", EmptyOptions)
  \/ \E ok \in BOOLEAN : BeforeUploadSettled(1, ok)
  \/ ProviderResolved(1)
  \/ \E e \in ProviderErrors : ProviderRejected(1, e)
  \/ \E ok \in BOOLEAN : AfterUploadSettled(1, ok)
  \/ \E ok \in BOOLEAN : OnErrorSettled(1, ok)
  \/ RegisterStep(2)
  \/ UnregisterStep(2)
  \/ Return(2)

SpecOverlap == Init /\ [][NextOverlap]_vars

\* One step of getUrlAsync.
GetUrlAsyncStep(t) ==
  \/ \E id \in Ids, tr \in Transforms : GetUrlAsyncCall(t, id, tr)
  \/ \E ok \in BOOLEAN : BeforeGetUrlSettled(t, ok)

\* A client that registers plugins and then uploads, deletes and asks for
\* URLs, awaiting every call.
NextPipelines ==
  RegisterStep(1) \/ UploadStep(1) \/ DeleteStep(1) \/ GetUrlAsyncStep(1) \/ Return(1)

SpecPipelines == Init /\ [][NextPipelines]_vars

(***************************************************************************)
(* new MediaUploader(provider, plugins): the constructor calls             *)
(* this.plugins.register(plugin) for each plugin without awaiting it, so   *)
(* each call runs up to its first await and stays in flight, one slot per  *)
(* call.  The constructor's argument is kept in the args of every slot;    *)
(* calls counts the register calls it has made.                            *)
(***************************************************************************)

\* The plugins argument of the constructor in flight.
ConstructorPlugins == task[1].args

\* The constructor's loop is over.
ConstructorReturned == calls = Len(ConstructorPlugins)

\* this.plugins.register(plugin), not awaited: the t-th iteration of the
\* constructor's loop.
ConstructorRegister(t) ==
  /\ task[t].op = "idle"
  /\ t = calls + 1 /\ t <= Len(ConstructorPlugins)
  /\ calls' = calls + 1
  /\ RegisterStart(t, [task[t] EXCEPT !.cache0 = pluginCache], ConstructorPlugins[t])
  /\ UNCHANGED <<threw, registered, regsOnly>>

\* A MediaUploader under construction with a list of plugins.
InitConstruct ==
  /\ pluginCache = <<>>
  /\ orderedPlugins = <<>>
  /\ cacheInvalid = FALSE
  /\ \E plugins \in SeqsUpTo(PluginIds, MaxInFlight) :
       task = [t \in Tasks |-> [IdleTask EXCEPT !.args = plugins]]
  /\ initCount = [p \in PluginIds |-> 0]
  /\ destroyCount = [p \in PluginIds |-> 0]
  /\ installs = [p \in PluginIds |-> 0]
  /\ removals = [p \in PluginIds |-> 0]
  /\ threw = FALSE
  /\ registered = <<>>
  /\ regsOnly = TRUE
  /\ calls = 0

\* The constructor runs to its end; the lifecycle promises it left behind
\* settle afterwards, in any order.
NextConstruct ==
  \/ \E t \in Tasks : ConstructorRegister(t)
  \/ /\ ConstructorReturned
     /\ \E t \in Tasks, ok \in BOOLEAN :
          RegisterDestroySettled(t, ok) \/ RegisterInitSettled(t, ok)

SpecConstruct == InitConstruct /\ [][NextConstruct]_vars

\* One upload, delete or getUrlAsync, not awaited, while the same client
\* registers, unregisters and clears, awaiting each of those calls.
NextHookRuns ==
  \/ UploadCall(1, "f1", EmptyOptions)
  \/ DeleteCall(1, "i1")
  \/ GetUrlAsyncCall(1, "i1", "")
  \/ PipelineStep(1)
  \/ \E ok \in BOOLEAN : BeforeGetUrlSettled(1, ok)
  \/ RegisterStep(2)
  \/ UnregisterStep(2)
  \/ ClearCall(2)
  \/ \E ok \in BOOLEAN : ClearDestroySettled(2, ok)
  \/ Return(2)

SpecHookRuns == Init /\ [][NextHookRuns]_vars

\* No upload call is in flight or waiting to be picked up.
NoUpload == \A t \in Tasks : task[t].op # "upload"

\* No register call is in flight or waiting to be picked up.
NoRegister == \A t \in Tasks : task[t].op # "register"

\* A client that registers plugins, awaiting each call, and then starts two
\* uploads of different files and options without awaiting the first: their
\* hook and provider steps interleave in every order.
NextIsolation ==
  \/ NoUpload /\ RegisterStep(1)
  \/ NoRegister /\ UploadCall(1, "f1", EmptyOptions)
  \/ NoRegister /\ UploadCall(2, "f2", [folder |-> "u", tags |-> <<>>])
  \/ \E t \in Tasks :
       \/ \E ok \in BOOLEAN : BeforeUploadSettled(t, ok)
       \/ ProviderResolved(t)
       \/ \E e \in ProviderErrors : ProviderRejected(t, e)
       \/ \E ok \in BOOLEAN : AfterUploadSettled(t, ok)
       \/ \E ok \in BOOLEAN : OnErrorSettled(t, ok)
  \/ Return(1)
  \/ Return(2)

SpecIsolation == Init /\ [][NextIsolation]_vars

\* A caller of withRetry, for every configuration.
InitRetry ==
  /\ pluginCache = <<>>
  /\ orderedPlugins = <<>>
  /\ cacheInvalid = FALSE
  /\ \E config \in RetryConfigs :
       task = [t \in Tasks |-> IF t = 1 THEN RetryTask(config) ELSE IdleTask]
  /\ initCount = [p \in PluginIds |-> 0]
  /\ destroyCount = [p \in PluginIds |-> 0]
  /\ installs = [p \in PluginIds |-> 0]
  /\ removals = [p \in PluginIds |-> 0]
  /\ threw = FALSE
  /\ registered = <<>>
  /\ regsOnly = TRUE
  /\ calls = 0

\* One step of withRetry: fn and the sleep settle as they may.
NextRetry ==
  \/ WithRetryCall(1)
  \/ \E v \in RetryValues : FnResolved(1, v)
  \/ \E e \in RetryThrown, custom \in BOOLEAN : FnRejected(1, e, custom)
  \/ SleepDone(1)

SpecRetry == InitRetry /\ [][NextRetry]_vars

\* withRetry with an fn whose promises always settle: the step a call waits
\* for (the continuation after await fn(), the timer of sleep) is taken.
SpecRetryLive == SpecRetry /\ WF_vars(NextRetry)

(***************************************************************************)
(* createFileValidationPlugin: the beforeUpload hook of the file           *)
(* validation plugin.  Names and MIME types are sequences of tokens, "."   *)
(* and "/" being tokens of their own.                                      *)
(***************************************************************************)

\* An option of FileValidationOptions: left out, or given with a value.
NotGiven(dflt) == [given |-> FALSE, value |-> dflt]
Given(v) == [given |-> TRUE, value |-> v]
Opt(S, dflt) == {NotGiven(dflt)} \cup {Given(v) : v \in S}

ImageAny == <<"image", "/", "*">>
ImageJpeg == <<"image", "/", "jpeg">>
ApplicationPdf == <<"application", "/", "pdf">>
ExtExe == <<".", "exe">>
ExtJpg == <<".", "jpg">>
ExtPdf == <<".", "pdf">>

\* The options the plugin is created with.
FileValidationOptions ==
  [maxSize : Opt({0, 1024}, 0),
   minSize : Opt({1024}, 0),
   allowedTypes : Opt({<<>>, <<ImageAny>>, <<ApplicationPdf, ImageJpeg>>}, <<>>),
   blockedExtensions : Opt({<<ExtExe>>}, <<>>),
   allowedExtensions : Opt({<<>>, <<ExtJpg, ExtPdf>>}, <<>>),
   customValidator : BOOLEAN,
   onValidationFailed : BOOLEAN]

\* The files handed to the hook: File objects and Buffers.
FileSizes == {100, 1024, 5000}
FileNames == {<<"photo", ".", "JPG">>, <<"virus", ".", "exe">>,
              <<"doc", ".", "v2", ".", "pdf">>, <<"README">>}
MimeTypes == {ImageJpeg, ApplicationPdf, <<>>}
ValidationFiles ==
  [isFile : {TRUE}, size : FileSizes, name : FileNames, type : MimeTypes]
    \cup [isFile : {FALSE}, size : FileSizes, name : {<<>>}, type : {<<>>}]

\* metadata.validation of the options, before the plugin has written it.
NoValidation ==
  [fileSize |-> 0, fileName |-> <<>>, fileType |-> <<>>, fileExt |-> <<>>,
   validated |-> FALSE, timestamp |-> ""]

\* The upload options handed to the hook.
ValidationUploadOptions ==
  [filename : {<<>>, <<"scan", ".", "pdf">>},
   folder : {"u"},
   metadata : {[custom |-> "", validation |-> NoValidation],
               [custom |-> "c1", validation |-> [NoValidation EXCEPT !.timestamp = "old"]]}]

\* new Date().toISOString()
Timestamps == {"ts1", "ts2"}

\* String.prototype.toLowerCase, token by token.
LowerToken(w) == IF w = "JPG" THEN "jpg" ELSE w
ToLowerCase(s) == [i \in 1..Len(s) |-> LowerToken(s[i])]

\* String.prototype.lastIndexOf, 0 for JavaScript's -1.
LastIndexOf(s, c) ==
  IF \E i \in 1..Len(s) : s[i] = c
  THEN CHOOSE i \in 1..Len(s) : s[i] = c /\ \A j \in (i + 1)..Len(s) : s[j] # c
  ELSE 0

\* name.includes('.') ? name.substring(name.lastIndexOf('.')).toLowerCase() : ''
FileExt(name) ==
  IF \E i \in 1..Len(name) : name[i] = Dot
  THEN ToLowerCase(SubSeq(name, LastIndexOf(name, Dot), Len(name)))
  ELSE <<>>

\* getFileInfo(file, options)
GetFileInfo(file, options) ==
  LET name == IF file.isFile THEN file.name
              ELSE IF options.filename # <<>> THEN options.filename ELSE <<"unknown">>
  IN [size |-> file.size, name |-> name,
      type |-> IF file.isFile THEN file.type ELSE <<>>,
      ext |-> FileExt(name)]

\* String.prototype.startsWith and endsWith.
StartsWith(s, prefix) ==
  Len(prefix) <= Len(s) /\ SubSeq(s, 1, Len(prefix)) = prefix
EndsWith(s, suffix) ==
  Len(suffix) <= Len(s) /\ SubSeq(s, Len(s) - Len(suffix) + 1, Len(s)) = suffix

\* type.replace('/*', ''): the first "/*" is taken out.
ReplaceSlashStar(type) ==
  LET at == {i \in 1..(Len(type) - 1) : type[i] = "/" /\ type[i + 1] = "*"}
  IN IF at = {} THEN type
     ELSE LET i == CHOOSE i \in at : \A j \in at : i <= j
          IN SubSeq(type, 1, i - 1) \o SubSeq(type, i + 2, Len(type))

\* Mutant of TypeAllowed: no wildcards, an allowed type matches only itself.
TypeAllowedExactOnly(allowedTypes, fileType) ==
  \E i \in 1..Len(allowedTypes) : allowedTypes[i] = fileType

\* options.allowedTypes.some((type) => ...)
TypeAllowed(allowedTypes, fileType) ==
  \E i \in 1..Len(allowedTypes) :
    IF EndsWith(allowedTypes[i], <<"/", "*">>)
    THEN StartsWith(fileType, ReplaceSlashStar(allowedTypes[i]))
    ELSE fileType = allowedTypes[i]

\* Array.prototype.includes
Includes(arr, x) == \E i \in 1..Len(arr) : arr[i] = x

\* A failed check: the ValidationError handed to onValidationFailed (type,
\* message) and the code of the MediaError that is thrown.
Failure(type, message, code) == [type |-> type, message |-> message, code |-> code]
NoFailure == Failure("", "", "")

\* The checks of beforeUpload before the custom validator, in the order of
\* the code: the first one that fails, or NoFailure.
SyncFailure(options, info) ==
  IF options.maxSize.given /\ options.maxSize.value # 0
       /\ info.size > options.maxSize.value
    THEN Failure("SIZE", "exceeds maximum", "FILE_TOO_LARGE")
  ELSE IF options.minSize.given /\ options.minSize.value # 0
       /\ info.size < options.minSize.value
    THEN Failure("SIZE", "is below minimum", "INVALID_FILE_TYPE")
  ELSE IF options.allowedTypes.given /\ Len(options.allowedTypes.value) > 0
       /\ ~TypeAllowed(options.allowedTypes.value, info.type)
    THEN Failure("TYPE", "type not allowed", "INVALID_FILE_TYPE")
  ELSE IF options.blockedExtensions.given
       /\ Includes(options.blockedExtensions.value, info.ext)
    THEN Failure("EXTENSION", "is blocked", "INVALID_FILE_TYPE")
  ELSE IF options.allowedExtensions.given /\ Len(options.allowedExtensions.value) > 0
       /\ ~Includes(options.allowedExtensions.value, info.ext)
    THEN Failure("EXTENSION", "extension not allowed", "INVALID_FILE_TYPE")
  ELSE NoFailure

\* An event of a beforeUpload call of the plugin: a callback called with a
\* ValidationError or with (file, name), or the validator's answer.
VEv(kind, type, message, file, name) ==
  [kind |-> kind, type |-> type, message |-> message, file |-> file, name |-> name,
   answer |-> FALSE]

\* options.onValidationFailed?.(error); throw new MediaError(error.message, code, ...)
ValidationThrow(tk, failure) ==
  [tk EXCEPT !.pc = "rejected",
             !.error = [isError |-> TRUE, code |-> failure.code,
                        message |-> failure.message],
             !.trace = @ \o (IF tk.cfg.onValidationFailed
                               THEN <<VEv("onValidationFailed", failure.type,
                                          failure.message, tk.file, <<>>)>>
                               ELSE <<>>)]

\* const enrichedOptions = { ...uploadOptions, metadata: { ...uploadOptions.metadata,
\* validation: {...} } }; return { file, options: enrichedOptions }
ValidationReturn(tk, timestamp) ==
  LET info == GetFileInfo(tk.file, tk.options)
  IN [tk EXCEPT !.pc = "resolved",
                !.ret = [file |-> tk.file,
                         options |-> [tk.options EXCEPT !.metadata =
                           [@ EXCEPT !.validation =
                              [fileSize |-> info.size, fileName |-> info.name,
                               fileType |-> info.type, fileExt |-> info.ext,
                               validated |-> TRUE, timestamp |-> timestamp]]]]]

ValidationTask(options, file, uploadOptions) ==
  [IdleTask EXCEPT !.op = "validate", !.pc = "call", !.cfg = options,
                   !.file = file, !.options = uploadOptions]

\* beforeUpload(file, uploadOptions) up to its first await, or to its end
\* when there is no custom validator.
FileValidationCall(t, timestamp) ==
  /\ task[t].op = "validate" /\ task[t].pc = "call"
  /\ LET tk == task[t]
         info == GetFileInfo(tk.file, tk.options)
         failure == SyncFailure(tk.cfg, info)
     IN task' = [task EXCEPT ![t] =
          IF failure # NoFailure THEN ValidationThrow(tk, failure)
          ELSE IF tk.cfg.customValidator
            THEN [tk EXCEPT !.pc = "validator",
                            !.trace = Append(@, VEv("customValidator", "", "",
                                                    tk.file, info.name))]
          ELSE ValidationReturn(tk, timestamp)]
  /\ UNCHANGED <<mgr, life, hist>>

\* await options.customValidator(file, fileName) gives isValid.
ValidatorSettled(t, isValid, timestamp) ==
  /\ task[t].op = "validate" /\ task[t].pc = "validator"
  /\ LET tk == [task[t] EXCEPT !.trace =
                  Append(@, [VEv("customValidator.answer", "", "", task[t].file, <<>>)
                               EXCEPT !.answer = isValid])]
     IN task' = [task EXCEPT ![t] =
          IF ~isValid
          THEN ValidationThrow(tk, Failure("CUSTOM", "File failed custom validation",
                                           "INVALID_FILE_TYPE"))
          ELSE ValidationReturn(tk, timestamp)]
  /\ UNCHANGED <<mgr, life, hist>>

\* await options.customValidator(file, fileName) throws: the hook rejects
\* with what the validator threw.
ValidatorThrew(t) ==
  /\ task[t].op = "validate" /\ task[t].pc = "validator"
  /\ task' = [task EXCEPT ![t] =
       [@ EXCEPT !.pc = "rejected",
                 !.error = [isError |-> TRUE, code |-> "", message |-> "validator threw"],
                 !.trace = Append(@, VEv("customValidator.throw", "", "",
                                         task[t].file, <<>>))]]
  /\ UNCHANGED <<mgr, life, hist>>

\* One beforeUpload call of a file validation plugin.
InitValidation ==
  /\ pluginCache = <<>>
  /\ orderedPlugins = <<>>
  /\ cacheInvalid = FALSE
  /\ \E options \in FileValidationOptions, file \in ValidationFiles,
        uploadOptions \in ValidationUploadOptions :
       task = [t \in Tasks |-> IF t = 1
                                 THEN ValidationTask(options, file, uploadOptions)
                                 ELSE IdleTask]
  /\ initCount = [p \in PluginIds |-> 0]
  /\ destroyCount = [p \in PluginIds |-> 0]
  /\ installs = [p \in PluginIds |-> 0]
  /\ removals = [p \in PluginIds |-> 0]
  /\ threw = FALSE
  /\ registered = <<>>
  /\ regsOnly = TRUE
  /\ calls = 0

NextValidation ==
  \/ \E timestamp \in Timestamps : FileValidationCall(1, timestamp)
  \/ \E isValid \in BOOLEAN, timestamp \in Timestamps :
       ValidatorSettled(1, isValid, timestamp)
  \/ ValidatorThrew(1)

SpecValidation == InitValidation /\ [][NextValidation]_vars

(***************************************************************************)
(* useMediaUpload: the React hook.  The hook instance is task 1: its state *)
(* (uploading, progress, result, error), and the position of the upload    *)
(* call in flight.  The state setters of one synchronous block are applied *)
(* together.                                                               *)
(***************************************************************************)

\* UseMediaUploadConfig: the mode, which endpoints and callbacks are given.
HookConfigs ==
  [mode : {"direct", "signed", "proxy"},
   signUrlEndpoint : BOOLEAN, proxyEndpoint : BOOLEAN,
   onUploadStart : BOOLEAN, onUploadComplete : BOOLEAN, onUploadError : BOOLEAN]

\* A field a JSON body does not have.
Undefined == "undefined"

\* What a fetch or a json() may reject with: an Error, or another value.
FetchThrown ==
  {[isError |-> TRUE, code |-> "", message |-> "Failed to fetch"],
   [isError |-> FALSE, code |-> "", message |-> "aborted"]}

\* Bodies of the signing endpoint.
SignBodies == {[publicId |-> "p1"], [publicId |-> Undefined]}

\* Bodies of the upload target and of the proxy endpoint.
UploadBodies ==
  {[public_id |-> "c1", key |-> Undefined, secure_url |-> "https://c1",
    url |-> "http://c1", Location |-> Undefined, id |-> Undefined,
    publicUrl |-> Undefined, provider |-> Undefined],
   [public_id |-> Undefined, key |-> "k1", secure_url |-> Undefined,
    url |-> Undefined, Location |-> "https://k1", id |-> Undefined,
    publicUrl |-> Undefined, provider |-> Undefined],
   [public_id |-> Undefined, key |-> Undefined, secure_url |-> Undefined,
    url |-> "https://x1", Location |-> Undefined, id |-> "x1",
    publicUrl |-> Undefined, provider |-> "s3"]}

\* a ?? b ?? c
Coalesce(values) ==
  LET defined == {i \in 1..Len(values) : values[i] # Undefined}
  IN IF defined = {} THEN Undefined
     ELSE values[CHOOSE i \in defined : \A j \in defined : i <= j]

\* The UploadResult uploadSigned returns; file stands for the fields taken
\* from the file (size, format).
SignedResult(file, publicId, body) ==
  [id |-> Coalesce(<<publicId, body.public_id, body.key>>),
   url |-> Coalesce(<<body.secure_url, body.url, body.Location>>),
   publicUrl |-> Coalesce(<<body.secure_url, body.url, body.Location>>),
   provider |-> "signed", file |-> file]

\* The UploadResult uploadProxy returns.
ProxyResult(file, body) ==
  [id |-> body.id, url |-> body.url,
   publicUrl |-> Coalesce(<<body.publicUrl, body.url>>),
   provider |-> Coalesce(<<body.provider, "proxy">>), file |-> file]

\* A callback of the config called: onUploadStart(), onUploadComplete(result)
\* or onUploadError(error).
HEv(kind, result, error) == [kind |-> kind, result |-> result, error |-> error]

\* useState(false), useState(0), useState(null), useState(null)
HookTask(config) ==
  [IdleTask EXCEPT !.op = "useMediaUpload", !.pc = "idle", !.cfg = config]

InFlightPcs == {"sign", "sign.json", "put", "put.json", "proxy", "proxy.json"}

\* Mutant of Finally: uploading stays as it is.
FinallySkipped(tk) == tk

\* finally { setUploading(false); }
Finally(tk) == [tk EXCEPT !.uploading = FALSE]

\* catch (err) { const uploadError = err instanceof Error ? err : new
\* Error('Upload failed'); setError(uploadError);
\* config.onUploadError?.(uploadError); throw uploadError; } finally {...}
Caught(tk, err) ==
  LET uploadError == IF err.isError THEN err
                     ELSE [isError |-> TRUE, code |-> "", message |-> "Upload failed"]
  IN Finally([tk EXCEPT !.pc = "rejected", !.error = uploadError,
                        !.errArg = uploadError,
                        !.trace = @ \o (IF tk.cfg.onUploadError
                                          THEN <<HEv("onUploadError", NoResult, uploadError)>>
                                          ELSE <<>>)])

\* setResult(uploadResult); setProgress(100);
\* config.onUploadComplete?.(uploadResult); return uploadResult; finally {...}
Completed(tk, uploadResult) ==
  Finally([tk EXCEPT !.pc = "resolved", !.result = uploadResult, !.progress = 100,
                     !.ret = uploadResult,
                     !.trace = @ \o (IF tk.cfg.onUploadComplete
                                       THEN <<HEv("onUploadComplete", uploadResult, NoError)>>
                                       ELSE <<>>)])

NewError(message) == [isError |-> TRUE, code |-> "", message |-> message]

\* upload(file, options) up to its first await, on the record of the hook:
\* the state is set, then onUploadStart is called, then the mode is entered.
HookUploadStart(tk0, file) ==
  LET tk == [tk0 EXCEPT !.uploading = TRUE, !.progress = 0, !.error = NoError,
                        !.result = NoResult, !.file = file, !.k = @ + 1,
                        !.ret = <<>>, !.errArg = NoError, !.overlapped = FALSE,
                        !.trace = IF tk0.cfg.onUploadStart
                                    THEN <<HEv("onUploadStart", NoResult, NoError)>>
                                    ELSE <<>>]
  IN CASE tk.cfg.mode = "signed" ->
            IF ~tk.cfg.signUrlEndpoint
            THEN Caught(tk, NewError("signUrlEndpoint is required for signed mode"))
            ELSE [tk EXCEPT !.progress = 10, !.pc = "sign"]
       [] tk.cfg.mode = "proxy" ->
            IF ~tk.cfg.proxyEndpoint
            THEN Caught(tk, NewError("proxyEndpoint is required for proxy mode"))
            ELSE [tk EXCEPT !.progress = 30, !.pc = "proxy"]
       [] OTHER ->
            Caught(tk, NewError("Direct mode requires server-side implementation"))

\* upload(file, options) called while no other call is in flight.
HookUploadCall(t, file) ==
  /\ task[t].op = "useMediaUpload" /\ task[t].pc \notin InFlightPcs
  /\ task[t].k < MaxCalls
  /\ task' = [task EXCEPT ![t] = HookUploadStart(task[t], file)]
  /\ UNCHANGED <<mgr, life, hist>>

\* await fetch(...) settles: the response is ok, not ok, or fetch rejected.
FetchOutcomes == {"ok", "notOk", "rejected"}

\* uploadSigned after await fetch(config.signUrlEndpoint, ...)
SignFetched(t, outcome, thrown) ==
  /\ task[t].op = "useMediaUpload" /\ task[t].pc = "sign"
  /\ task' = [task EXCEPT ![t] =
       CASE outcome = "rejected" -> Caught(@, thrown)
         [] outcome = "notOk" -> Caught(@, NewError("Failed to get signed upload URL"))
         [] outcome = "ok" -> [@ EXCEPT !.pc = "sign.json"]]
  /\ UNCHANGED <<mgr, life, hist>>

\* uploadSigned after await signResponse.json(): progress 30, the upload
\* request goes out.
SignJson(t, ok, body, thrown) ==
  /\ task[t].op = "useMediaUpload" /\ task[t].pc = "sign.json"
  /\ task' = [task EXCEPT ![t] =
       IF ok THEN [@ EXCEPT !.progress = 30, !.pc = "put", !.id = body.publicId]
       ELSE Caught(@, thrown)]
  /\ UNCHANGED <<mgr, life, hist>>

\* uploadSigned after await fetch(uploadUrl, ...): progress 90, then the
\* response is looked at.
PutFetched(t, outcome, thrown) ==
  /\ task[t].op = "useMediaUpload" /\ task[t].pc = "put"
  /\ task' = [task EXCEPT ![t] =
       CASE outcome = "rejected" -> Caught(@, thrown)
         [] outcome = "notOk" -> Caught([@ EXCEPT !.progress = 90], NewError("Upload failed"))
         [] outcome = "ok" -> [@ EXCEPT !.progress = 90, !.pc = "put.json"]]
  /\ UNCHANGED <<mgr, life, hist>>

\* uploadSigned after await uploadResponse.json(): the result is returned.
PutJson(t, ok, body, thrown) ==
  /\ task[t].op = "useMediaUpload" /\ task[t].pc = "put.json"
  /\ task' = [task EXCEPT ![t] =
       IF ok THEN Completed(@, SignedResult(task[t].file, task[t].id, body))
       ELSE Caught(@, thrown)]
  /\ UNCHANGED <<mgr, life, hist>>

\* uploadProxy after await fetch(config.proxyEndpoint, ...)
ProxyFetched(t, outcome, thrown) ==
  /\ task[t].op = "useMediaUpload" /\ task[t].pc = "proxy"
  /\ task' = [task EXCEPT ![t] =
       CASE outcome = "rejected" -> Caught(@, thrown)
         [] outcome = "notOk" -> Caught([@ EXCEPT !.progress = 90], NewError("Upload failed"))
         [] outcome = "ok" -> [@ EXCEPT !.progress = 90, !.pc = "proxy.json"]]
  /\ UNCHANGED <<mgr, life, hist>>

\* uploadProxy after await response.json()
ProxyJson(t, ok, body, thrown) ==
  /\ task[t].op = "useMediaUpload" /\ task[t].pc = "proxy.json"
  /\ task' = [task EXCEPT ![t] =
       IF ok THEN Completed(@, ProxyResult(task[t].file, body))
       ELSE Caught(@, thrown)]
  /\ UNCHANGED <<mgr, life, hist>>

\* reset(): while an upload is in flight it overlaps that call.
HookReset(t) ==
  /\ task[t].op = "useMediaUpload"
  /\ task' = [task EXCEPT ![t] =
       [@ EXCEPT !.uploading = FALSE, !.progress = 0, !.result = NoResult,
                 !.error = NoError,
                 !.overlapped = task[t].pc \in InFlightPcs,
                 !.pc = IF task[t].pc \in InFlightPcs THEN task[t].pc ELSE "idle",
                 !.trace = IF task[t].pc \in InFlightPcs THEN task[t].trace ELSE <<>>]]
  /\ UNCHANGED <<mgr, life, hist>>

\* A component that has called useMediaUpload(config).
InitUseMediaUpload ==
  /\ pluginCache = <<>>
  /\ orderedPlugins = <<>>
  /\ cacheInvalid = FALSE
  /\ \E config \in HookConfigs :
       task = [t \in Tasks |-> IF t = 1 THEN HookTask(config) ELSE IdleTask]
  /\ initCount = [p \in PluginIds |-> 0]
  /\ destroyCount = [p \in PluginIds |-> 0]
  /\ installs = [p \in PluginIds |-> 0]
  /\ removals = [p \in PluginIds |-> 0]
  /\ threw = FALSE
  /\ registered = <<>>
  /\ regsOnly = TRUE
  /\ calls = 0

NextUseMediaUpload ==
  \/ \E file \in Files : HookUploadCall(1, file)
  \/ \E outcome \in FetchOutcomes, thrown \in FetchThrown : SignFetched(1, outcome, thrown)
  \/ \E ok \in BOOLEAN, body \in SignBodies, thrown \in FetchThrown :
       SignJson(1, ok, body, thrown)
  \/ \E outcome \in FetchOutcomes, thrown \in FetchThrown : PutFetched(1, outcome, thrown)
  \/ \E ok \in BOOLEAN, body \in UploadBodies, thrown \in FetchThrown :
       PutJson(1, ok, body, thrown)
  \/ \E outcome \in FetchOutcomes, thrown \in FetchThrown : ProxyFetched(1, outcome, thrown)
  \/ \E ok \in BOOLEAN, body \in UploadBodies, thrown \in FetchThrown :
       ProxyJson(1, ok, body, thrown)
  \/ HookReset(1)

SpecUseMediaUpload == InitUseMediaUpload /\ [][NextUseMediaUpload]_vars

(***************************************************************************)
(* useMediaUpload with upload calls that overlap.  Every slot is one       *)
(* activation of upload on the same hook instance: its position, file and  *)
(* outcome are its own, while uploading, progress, result and error are    *)
(* the one state of the hook, kept identical in every slot's record.       *)
(***************************************************************************)

\* The activation of upload in slot t went from task[t] to tk; the state it
\* set is the state every other activation sees.
SharedState(t, tk) ==
  [u \in Tasks |->
     IF u = t THEN tk
     ELSE [task[u] EXCEPT !.uploading = tk.uploading, !.progress = tk.progress,
                          !.result = tk.result, !.error = tk.error]]

\* The await an activation is suspended on settles: uploadSigned or
\* uploadProxy goes on to its next await, returns or throws.
HookResumed(tk, outcome, ok, sign, body, thrown) ==
  CASE tk.pc = "sign" ->
         (CASE outcome = "rejected" -> Caught(tk, thrown)
            [] outcome = "notOk" -> Caught(tk, NewError("Failed to get signed upload URL"))
            [] outcome = "ok" -> [tk EXCEPT !.pc = "sign.json"])
    [] tk.pc = "sign.json" ->
         IF ok THEN [tk EXCEPT !.progress = 30, !.pc = "put", !.id = sign.publicId]
         ELSE Caught(tk, thrown)
    [] tk.pc = "put" ->
         (CASE outcome = "rejected" -> Caught(tk, thrown)
            [] outcome = "notOk" ->
                 Caught([tk EXCEPT !.progress = 90], NewError("Upload failed"))
            [] outcome = "ok" -> [tk EXCEPT !.progress = 90, !.pc = "put.json"])
    [] tk.pc = "put.json" ->
         IF ok THEN Completed(tk, SignedResult(tk.file, tk.id, body))
         ELSE Caught(tk, thrown)
    [] tk.pc = "proxy" ->
         (CASE outcome = "rejected" -> Caught(tk, thrown)
            [] outcome = "notOk" ->
                 Caught([tk EXCEPT !.progress = 90], NewError("Upload failed"))
            [] outcome = "ok" -> [tk EXCEPT !.progress = 90, !.pc = "proxy.json"])
    [] tk.pc = "proxy.json" ->
         IF ok THEN Completed(tk, ProxyResult(tk.file, body))
         ELSE Caught(tk, thrown)

\* upload(file, options) called, whatever other calls are in flight.
OverlappingUploadCall(t, file) ==
  /\ task[t].op = "useMediaUpload" /\ task[t].pc \notin InFlightPcs
  /\ calls < MaxCalls
  /\ calls' = calls + 1
  /\ task' = SharedState(t, HookUploadStart(task[t], file))
  /\ UNCHANGED <<mgr, life, threw, registered, regsOnly>>

\* An await of the activation in slot t settles.
OverlappingUploadResumed(t, outcome, ok, sign, body, thrown) ==
  /\ task[t].op = "useMediaUpload" /\ task[t].pc \in InFlightPcs
  /\ task' = SharedState(t, HookResumed(task[t], outcome, ok, sign, body, thrown))
  /\ UNCHANGED <<mgr, life, hist>>

\* A component that has called useMediaUpload(config) with its endpoints and
\* with all of the callbacks or none; every slot is ready for a call of
\* upload.
InitOverlappingUploads ==
  /\ pluginCache = <<>>
  /\ orderedPlugins = <<>>
  /\ cacheInvalid = FALSE
  /\ \E config \in HookConfigs :
       /\ config.signUrlEndpoint /\ config.proxyEndpoint
       /\ config.onUploadComplete = config.onUploadStart
       /\ config.onUploadError = config.onUploadStart
       /\ task = [t \in Tasks |-> HookTask(config)]
  /\ initCount = [p \in PluginIds |-> 0]
  /\ destroyCount = [p \in PluginIds |-> 0]
  /\ installs = [p \in PluginIds |-> 0]
  /\ removals = [p \in PluginIds |-> 0]
  /\ threw = FALSE
  /\ registered = <<>>
  /\ regsOnly = TRUE
  /\ calls = 0

NextOverlappingUploads ==
  \E t \in Tasks :
    \/ \E file \in Files : OverlappingUploadCall(t, file)
    \/ \E outcome \in FetchOutcomes, ok \in BOOLEAN, sign \in SignBodies,
          body \in UploadBodies, thrown \in FetchThrown :
         OverlappingUploadResumed(t, outcome, ok, sign, body, thrown)

SpecOverlappingUploads == InitOverlappingUploads /\ [][NextOverlappingUploads]_vars

(***************************************************************************)
(* The beforeUpload hooks of the bundled retry, file-validation and        *)
(* metadata-extraction plugins, chained by runBeforeUpload.  options.      *)
(* metadata is a map from keys to values; a missing metadata is the map    *)
(* without keys, which is what spreading undefined gives.                  *)
(***************************************************************************)

BundledPlugins == {"retry", "file-validation", "metadata-extraction"}

\* A metadata value with nothing in it; callers and plugins fill in fields.
BlankValue ==
  [by |-> "", text |-> "", maxRetries |-> 0, currentAttempt |-> 0, validated |-> FALSE,
   fileSize |-> 0, fileName |-> <<>>, fileType |-> <<>>, fileExt |-> <<>>,
   timestamp |-> "", dimensions |-> FALSE, exif |-> FALSE, hash |-> "",
   hashAlgorithm |-> ""]

\* { ...metadata, [key]: value }
SpreadWith(metadata, key, value) ==
  [k \in DOMAIN metadata \cup {key} |-> IF k = key THEN value ELSE metadata[k]]

\* What a hook gave: it threw, or it returned { file, options }.
HookReturn(file, options) == [threw |-> FALSE, file |-> file, options |-> options]
HookThrow(file, options) == [threw |-> TRUE, file |-> file, options |-> options]

\* Mutant of RetryBeforeUpload: metadata is replaced by the plugin's own key.
RetryBeforeUploadReplaces(config, file, uploadOptions) ==
  HookReturn(file, [uploadOptions EXCEPT !.metadata =
    SpreadWith(<<>>, "_retry", [BlankValue EXCEPT !.by = "retry",
                                              !.maxRetries = config.maxRetries.value,
                                              !.currentAttempt = 0])])

\* createRetryPlugin(options).hooks.beforeUpload: maxRetries is
\* options.maxRetries ?? 3, the value of the Opt.
RetryBeforeUpload(config, file, uploadOptions) ==
  HookReturn(file, [uploadOptions EXCEPT !.metadata =
    SpreadWith(@, "_retry", [BlankValue EXCEPT !.by = "retry",
                                           !.maxRetries = config.maxRetries.value,
                                           !.currentAttempt = 0])])

\* getRetryConfig(options): options.metadata?._retry, or undefined.
GetRetryConfig(options) ==
  IF "_retry" \in DOMAIN options.metadata
  THEN [defined |-> TRUE, value |-> options.metadata["_retry"]]
  ELSE [defined |-> FALSE, value |-> BlankValue]

\* createFileValidationPlugin(options).hooks.beforeUpload, as one step: it
\* throws when a check fails or the custom validator says no, and else
\* returns the options with metadata.validation.
ValidationBeforeUpload(config, file, uploadOptions, isValid, timestamp) ==
  LET info == GetFileInfo(file, uploadOptions)
  IN IF SyncFailure(config, info) # NoFailure \/ (config.customValidator /\ ~isValid)
     THEN HookThrow(file, uploadOptions)
     ELSE HookReturn(file, [uploadOptions EXCEPT !.metadata =
            SpreadWith(@, "validation",
                   [BlankValue EXCEPT !.by = "file-validation", !.fileSize = info.size,
                                      !.fileName = info.name, !.fileType = info.type,
                                      !.fileExt = info.ext, !.validated = TRUE,
                                      !.timestamp = timestamp])])

\* isImage(file): a File whose type starts with "image/".
IsImage(file) == file.isFile /\ StartsWith(file.type, <<"image", "/">>)

\* What sharp gives for an image: it fails, or metadata with or without
\* width, height and exif.
SharpOutcomes == {"failed", "bare", "sized", "sized+exif"}

\* createMetadataExtractionPlugin(options).hooks.beforeUpload.  failed: the
\* outer try block threw (the file could not be read, or the hash could not
\* be made); the catch block then returns the options it was given.
ExtractionBeforeUpload(config, file, uploadOptions, sharp, failed) ==
  IF failed THEN HookReturn(file, uploadOptions)
  ELSE LET seen == IsImage(file) /\ (config.extractDimensions \/ config.extractExif)
                     /\ sharp # "failed"
       IN HookReturn(file, [uploadOptions EXCEPT !.metadata =
            SpreadWith(@, "extracted",
                   [BlankValue EXCEPT
                      !.by = "metadata-extraction",
                      !.dimensions = seen /\ config.extractDimensions
                                       /\ sharp \in {"sized", "sized+exif"},
                      !.exif = seen /\ config.extractExif /\ sharp = "sized+exif",
                      !.hash = IF config.hashFile THEN "digest" ELSE "",
                      !.hashAlgorithm = IF config.hashFile THEN config.hashAlgorithm
                                        ELSE ""])])

\* The caller's seed metadata: nothing, or values under keys of the caller's
\* choice, a plugin's key among them.
SeedMetadata ==
  UNION {[keys -> {[BlankValue EXCEPT !.by = "caller", !.text = "seed"]}] :
           keys \in SUBSET {"custom", "validation"}}

\* The options of the three plugins, the file and the upload options of one
\* chain.
EnrichConfigs ==
  [retry : [maxRetries : Opt({0, 5}, 3)],
   validation : {o \in FileValidationOptions :
                   /\ ~o.maxSize.given /\ ~o.minSize.given
                   /\ ~o.blockedExtensions.given /\ ~o.allowedExtensions.given
                   /\ ~o.onValidationFailed
                   /\ o.allowedTypes \in {NotGiven(<<>>), Given(<<ImageAny>>)}},
   extraction : [extractExif : {TRUE}, extractDimensions : BOOLEAN,
                 hashFile : BOOLEAN, hashAlgorithm : {"md5"}]]
EnrichFiles ==
  {f \in ValidationFiles : f.size = 1024 /\ f.name \in {<<"photo", ".", "JPG">>, <<>>}}
EnrichUploadOptions == [filename : {<<>>}, folder : {"u"}, metadata : SeedMetadata]

\* The registration orders of some or all of the three plugins.
RegistrationOrders ==
  {o \in SeqsUpTo(BundledPlugins, 3) :
     o # <<>> /\ \A i, j \in 1..Len(o) : i # j => o[i] # o[j]}

\* One hook of the chain was called with file and options and gave out.
CEv(plugin, file, options, out, failed) ==
  [plugin |-> plugin, file |-> file, options |-> options, out |-> out, failed |-> failed]

\* runBeforeUpload goes on after the hook of the next plugin gave out: the
\* pair replaces the accumulator, a throw ends the run.
ChainOn(tk, out, failed) ==
  LET acc == Accumulate(tk.curFile, tk.curOptions,
                        [void |-> FALSE, file |-> out.file, options |-> out.options])
      tr == Append(tk.trace, CEv(tk.items[tk.idx + 1], tk.curFile, tk.curOptions, out,
                                 failed))
  IN IF out.threw THEN [tk EXCEPT !.pc = "rejected", !.trace = tr]
     ELSE [tk EXCEPT !.idx = @ + 1, !.curFile = acc.file, !.curOptions = acc.options,
                     !.trace = tr,
                     !.pc = IF tk.idx + 1 = Len(tk.items) THEN "resolved" ELSE "chain",
                     !.ret = IF tk.idx + 1 = Len(tk.items)
                               THEN [file |-> acc.file, options |-> acc.options]
                               ELSE <<>>]

\* The next hook of the chain is the one of plugin p.
ChainAt(t, p) ==
  /\ task[t].op = "enrich" /\ task[t].pc = "chain"
  /\ task[t].items[task[t].idx + 1] = p

RetryHookSettled(t) ==
  /\ ChainAt(t, "retry")
  /\ task' = [task EXCEPT ![t] =
       ChainOn(@, RetryBeforeUpload(@.cfg.retry, @.curFile, @.curOptions), FALSE)]
  /\ UNCHANGED <<mgr, life, hist>>

ValidationHookSettled(t, isValid, timestamp) ==
  /\ ChainAt(t, "file-validation")
  /\ task' = [task EXCEPT ![t] =
       ChainOn(@, ValidationBeforeUpload(@.cfg.validation, @.curFile, @.curOptions,
                                         isValid, timestamp), FALSE)]
  /\ UNCHANGED <<mgr, life, hist>>

ExtractionHookSettled(t, sharp, failed) ==
  /\ ChainAt(t, "metadata-extraction")
  /\ task' = [task EXCEPT ![t] =
       ChainOn(@, ExtractionBeforeUpload(@.cfg.extraction, @.curFile, @.curOptions,
                                         sharp, failed), failed)]
  /\ UNCHANGED <<mgr, life, hist>>

\* runBeforeUpload(file, options) on a manager where the plugins of order
\* were registered in that order.
InitEnrich ==
  /\ pluginCache = <<>>
  /\ orderedPlugins = <<>>
  /\ cacheInvalid = FALSE
  /\ \E config \in EnrichConfigs, order \in RegistrationOrders, file \in EnrichFiles,
        uploadOptions \in EnrichUploadOptions :
       task = [t \in Tasks |->
                 IF t = 1
                 THEN [IdleTask EXCEPT !.op = "enrich", !.pc = "chain", !.cfg = config,
                                       !.items = order, !.file = file,
                                       !.options = uploadOptions, !.curFile = file,
                                       !.curOptions = uploadOptions]
                 ELSE IdleTask]
  /\ initCount = [p \in PluginIds |-> 0]
  /\ destroyCount = [p \in PluginIds |-> 0]
  /\ installs = [p \in PluginIds |-> 0]
  /\ removals = [p \in PluginIds |-> 0]
  /\ threw = FALSE
  /\ registered = <<>>
  /\ regsOnly = TRUE
  /\ calls = 0

NextEnrich ==
  \/ RetryHookSettled(1)
  \/ \E isValid \in BOOLEAN, timestamp \in Timestamps :
       ValidationHookSettled(1, isValid, timestamp)
  \/ \E sharp \in SharpOutcomes, failed \in BOOLEAN :
       ExtractionHookSettled(1, sharp, failed)

SpecEnrich == InitEnrich /\ [][NextEnrich]_vars

\* A caller of supports, for every string of at most MaxPathLen tokens.
InitSupports ==
  /\ pluginCache = <<>>
  /\ orderedPlugins = <<>>
  /\ cacheInvalid = FALSE
  /\ \E feature \in SeqsUpTo(PathTokens, MaxPathLen) :
       task = [t \in Tasks |-> IF t = 1 THEN SupportsTask(feature) ELSE IdleTask]
  /\ initCount = [p \in PluginIds |-> 0]
  /\ destroyCount = [p \in PluginIds |-> 0]
  /\ installs = [p \in PluginIds |-> 0]
  /\ removals = [p \in PluginIds |-> 0]
  /\ threw = FALSE
  /\ registered = <<>>
  /\ regsOnly = TRUE
  /\ calls = 0

NextSupports == SupportsCall(1)

SpecSupports == InitSupports /\ [][NextSupports]_vars

\* ================================================================== claims
\* Helpers of the claims' statements.
Idle == \A t \in Tasks : task[t].op = "idle"

DistinctNames(seq) ==
  \A i, j \in 1..Len(seq) : i # j => Plugin[seq[i]].name # Plugin[seq[j]].name

\* The events of the given kind in a trace, in order.
EventsOf(trace, kind) == SelectSeq(trace, LAMBDA e : e.kind = kind)

\* The plugins of the events of the given kind in a trace, in order.
PluginsOf(trace, kind) ==
  [i \in 1..Len(EventsOf(trace, kind)) |-> EventsOf(trace, kind)[i].plugin]

IsPrefix(a, b) == Len(a) <= Len(b) /\ \A i \in 1..Len(a) : a[i] = b[i]

WithHook(list, h) == SelectSeq(list, LAMBDA q : h \in Plugin[q].hooks)

\* C1: when register(P_new) is called while P_old with the same name is
\* installed, P_old.destroy has ended before P_new.init begins, and once the
\* call has resolved get(N) is P_new and size is what it was at the call.
C1_OverrideDestroyBeforeInit ==
  \A t \in Tasks :
    LET tk == task[t] IN
    (tk.op = "register" /\ tk.existing # None) =>
      /\ (Plugin[tk.existing].hasDestroy /\ Plugin[tk.plugin].hasInit) =>
           \A i \in 1..Len(tk.trace) :
             tk.trace[i] = LEv("init.begin", tk.plugin) =>
               \E j \in 1..(i - 1) : tk.trace[j] = LEv("destroy.end", tk.existing)
      /\ tk.pc = "resolved" =>
           /\ CacheGet(pluginCache, tk.name) = tk.plugin
           /\ Len(pluginCache) = tk.size0

\* C1 witness: A2 has replaced A1 (which has destroy; A2 has init) and the
\* call has resolved with another plugin installed beside it.
C1_Witness ==
  \E t \in Tasks :
    /\ task[t].op = "register" /\ task[t].pc = "resolved"
    /\ task[t].existing = "A1" /\ task[t].plugin = "A2"
    /\ Len(pluginCache) = 2

\* C2: after completed register calls P1..Pn with pairwise distinct names (and
\* nothing else), getAll() is <<P1..Pn>>, and a runBeforeUpload run calls the
\* beforeUpload hooks in that order (all of them once it has gone through).
C2_RegistrationOrder ==
  (regsOnly /\ DistinctNames(registered)) =>
    /\ Idle => Rebuilt = registered
    /\ \A t \in Tasks :
      LET tk == task[t] IN
      /\ tk.op = "getAll" => tk.ret = registered
      /\ tk.op = "upload" =>
           /\ IsPrefix(PluginsOf(tk.trace, "beforeUpload"),
                       WithHook(registered, "beforeUpload"))
           /\ EventsOf(tk.trace, "provider.upload") # <<>> =>
                PluginsOf(tk.trace, "beforeUpload") = WithHook(registered, "beforeUpload")

\* C2 witness: three plugins with distinct names were registered and a
\* beforeUpload run over them has reached the provider call.
C2_Witness ==
  /\ regsOnly /\ Len(registered) = 3 /\ DistinctNames(registered)
  /\ \E t \in Tasks :
       /\ task[t].op = "upload" /\ task[t].pc = "provider"
       /\ Len(PluginsOf(task[t].trace, "beforeUpload")) = 3

\* The upload calls in flight or settled.
Uploads == {t \in Tasks : task[t].op = "upload"}

\* The fold the beforeUpload hooks of plugs make of (file, options).
RECURSIVE RefBefore(_, _, _)
RefBefore(plugs, file, options) ==
  IF plugs = <<>>
  THEN [file |-> file, options |-> options]
  ELSE LET r == BeforeUploadHook(Head(plugs), file, options)
       IN IF r.void THEN RefBefore(Tail(plugs), file, options)
                    ELSE RefBefore(Tail(plugs), r.file, r.options)

\* The composition h_n(...h_1(result)) of the afterUpload hooks of plugs.
RECURSIVE RefAfter(_, _)
RefAfter(plugs, result) ==
  IF plugs = <<>> THEN result
  ELSE RefAfter(Tail(plugs), AfterUploadHook(Head(plugs), result))

\* C3: an upload that resolved made exactly these calls, in this order: the
\* beforeUpload hooks (the first on the caller's file and options), then
\* provider.upload once with the chain's outcome, then the afterUpload hooks
\* (the first on the provider's result); it returns the afterUpload chain's
\* final result.
C3_UploadSuccessPath ==
  \A t \in Uploads :
    LET tk == task[t]
        tr == tk.trace
        bs == WithHook(orderedPlugins, "beforeUpload")
        as == WithHook(orderedPlugins, "afterUpload")
        eff == RefBefore(bs, tk.file, tk.options)
        raw == ProviderUpload(eff.file, eff.options)
    IN tk.pc = "resolved" =>
         /\ Len(tr) = Len(bs) + 1 + Len(as)
         /\ \A i \in 1..Len(bs) : tr[i].kind = "beforeUpload" /\ tr[i].plugin = bs[i]
         /\ Len(bs) > 0 => tr[1].file = tk.file /\ tr[1].options = tk.options
         /\ tr[Len(bs) + 1].kind = "provider.upload"
         /\ tr[Len(bs) + 1].file = eff.file /\ tr[Len(bs) + 1].options = eff.options
         /\ \A i \in 1..Len(as) :
              /\ tr[Len(bs) + 1 + i].kind = "afterUpload"
              /\ tr[Len(bs) + 1 + i].plugin = as[i]
         /\ Len(as) > 0 => tr[Len(bs) + 2].result = raw
         /\ tk.result = RefAfter(as, raw)

\* C3 witness: an upload resolved through at least two plugins, with options
\* the chain changed and a result the afterUpload chain changed.
C3_Witness ==
  \E t \in Uploads :
    /\ task[t].pc = "resolved"
    /\ Len(orderedPlugins) >= 2
    /\ task[t].curOptions # task[t].options
    /\ task[t].result # ProviderUpload(task[t].curFile, task[t].curOptions)

\* C6: every beforeUpload hook is called with the accumulator its
\* predecessors left (a returned pair replaces it, nothing leaves it), and the
\* final accumulator is what runBeforeUpload returns to upload.
C6_BeforeUploadThreading ==
  \A t \in Uploads :
    LET tk == task[t]
        bs == EventsOf(tk.trace, "beforeUpload")
        ps == PluginsOf(tk.trace, "beforeUpload")
        pe == EventsOf(tk.trace, "provider.upload")
    IN /\ \A k \in 1..Len(bs) :
            LET acc == RefBefore(SubSeq(ps, 1, k - 1), tk.file, tk.options)
            IN bs[k].file = acc.file /\ bs[k].options = acc.options
       /\ pe # <<>> =>
            /\ pe[1].file = RefBefore(ps, tk.file, tk.options).file
            /\ pe[1].options = RefBefore(ps, tk.file, tk.options).options

\* C6 witness: A1 (folder), then C (returns nothing), then B (tags) ran on
\* empty options, and the run returned folder 'A' and tags ['B'].
C6_Witness ==
  \E t \in Uploads :
    /\ task[t].pc = "provider"
    /\ task[t].options = EmptyOptions
    /\ PluginsOf(task[t].trace, "beforeUpload") = <<"A1", "C", "B">>
    /\ task[t].curOptions = [folder |-> "A", tags |-> <<"B">>]

\* C7: every afterUpload hook is called with the result its predecessors
\* left, starting from the provider's result, and the run returns
\* h_n(...h_1(result)) over the plugins in registration order.
C7_AfterUploadComposition ==
  \A t \in Uploads :
    LET tk == task[t]
        as == EventsOf(tk.trace, "afterUpload")
        ps == PluginsOf(tk.trace, "afterUpload")
        pe == EventsOf(tk.trace, "provider.upload")
    IN /\ \A k \in 1..Len(as) :
            as[k].result = RefAfter(SubSeq(ps, 1, k - 1),
                                    ProviderUpload(pe[1].file, pe[1].options))
       /\ tk.pc = "resolved" =>
            /\ ps = WithHook(pluginCache, "afterUpload")
            /\ tk.result = RefAfter(WithHook(pluginCache, "afterUpload"),
                                    ProviderUpload(pe[1].file, pe[1].options))

\* C7 witness: A1 set metadata.x = 1, then B incremented it: x = 2.
C7_Witness ==
  \E t \in Uploads :
    /\ task[t].pc = "resolved"
    /\ PluginsOf(task[t].trace, "afterUpload") = <<"A1", "B">>
    /\ task[t].result.x = <<2>>

\* C8: when a beforeUpload hook throws, nothing follows it in the call (no
\* later beforeUpload, no provider.upload, no other hook) and upload rejects
\* with the hook's error.
C8_BeforeUploadThrowAborts ==
  \A t \in Uploads :
    LET tk == task[t] IN
    \A i \in 1..Len(tk.trace) :
      tk.trace[i].kind = "beforeUpload.throw" =>
        /\ i = Len(tk.trace)
        /\ tk.pc = "rejected"
        /\ tk.error = HookError(tk.trace[i].plugin, "beforeUpload")
        /\ EventsOf(tk.trace, "provider.upload") = <<>>

\* C8 witness: the first of three beforeUpload hooks threw.
C8_Witness ==
  \E t \in Uploads :
    /\ task[t].pc = "rejected"
    /\ Len(WithHook(task[t].list, "beforeUpload")) = 3
    /\ Len(task[t].trace) = 2
    /\ task[t].trace[2].kind = "beforeUpload.throw"

\* C9: every onError hook gets as context the file and options that went to
\* provider.upload, which are the beforeUpload chain's outcome.
C9_OnErrorContextEffective ==
  \A t \in Uploads :
    LET tk == task[t]
        pe == EventsOf(tk.trace, "provider.upload")
        eff == RefBefore(PluginsOf(tk.trace, "beforeUpload"), tk.file, tk.options)
    IN \A i \in 1..Len(tk.trace) :
         tk.trace[i].kind = "onError" =>
           /\ Len(pe) = 1
           /\ tk.trace[i].file = pe[1].file /\ tk.trace[i].options = pe[1].options
           /\ tk.trace[i].file = eff.file /\ tk.trace[i].options = eff.options

\* C9 witness: provider.upload rejected and an onError hook was called with
\* a file and options that differ from the caller's.
C9_Witness ==
  \E t \in Uploads :
    LET tk == task[t] IN
    /\ EventsOf(tk.trace, "provider.throw") # <<>>
    /\ \E i \in 1..Len(tk.trace) :
         /\ tk.trace[i].kind = "onError"
         /\ tk.trace[i].file # tk.file
         /\ tk.trace[i].options # tk.options

\* C4: whenever provider.upload failed and the upload call has settled, every
\* registered plugin that defines onError was notified exactly once and the
\* caller observes the provider's error itself.
C4_OnErrorOnceOriginalError ==
  \A t \in Uploads :
    LET tk == task[t]
        pt == EventsOf(tk.trace, "provider.throw")
    IN (pt # <<>> /\ Settled(tk)) =>
         /\ tk.pc = "rejected"
         /\ tk.error = pt[1].error
         /\ PluginsOf(tk.trace, "onError") = WithHook(pluginCache, "onError")

\* C5: once a runOnError run is over, every plugin that defines onError was
\* called with the same error and context, also after an earlier handler
\* threw, and the run did not reject with a handler's error.
C5_OnErrorFanOutIsolated ==
  \A t \in Uploads :
    LET tk == task[t]
        es == EventsOf(tk.trace, "onError")
    IN (tk.errArg # NoError /\ Settled(tk)) =>
         /\ PluginsOf(tk.trace, "onError") = WithHook(pluginCache, "onError")
         /\ \A i \in 1..Len(es) :
              /\ es[i].error = tk.errArg
              /\ es[i].file = tk.curFile /\ es[i].options = tk.curOptions
         /\ EventsOf(tk.trace, "onError.throw") = <<>> \/ tk.error.code # "onError"

\* C10: in runs where no lifecycle callback throws, whenever no call is in
\* flight each plugin's init has run once per installation and its destroy
\* once per removal (override, unregister or clear) - also when the calls
\* overlapped.
C10_LifecycleExactlyOnce ==
  (Idle /\ ~threw) =>
    \A p \in PluginIds :
      /\ Plugin[p].hasInit => initCount[p] = installs[p]
      /\ Plugin[p].hasDestroy => destroyCount[p] = removals[p]

\* The delete calls in flight or settled.
Deletes == {t \in Tasks : task[t].op = "delete"}

\* The id the beforeDelete hooks of plugs make of id: a hook that answers a
\* non-empty string replaces it.
RECURSIVE RefBeforeDelete(_, _)
RefBeforeDelete(plugs, id) ==
  IF plugs = <<>> THEN id
  ELSE LET r == BeforeDeleteHook(Head(plugs), id)
       IN RefBeforeDelete(Tail(plugs), IF r = "" THEN id ELSE r)

\* tr is the whole delete pipeline over the plugins of list for id: the
\* beforeDelete chain, provider.delete with the chained id, the afterDelete
\* fan-out with the chained id.
DeletePipelineRan(tr, list, id) ==
  LET bs == WithHook(list, "beforeDelete")
      as == WithHook(list, "afterDelete")
      cid == RefBeforeDelete(bs, id)
  IN /\ Len(tr) = Len(bs) + 1 + Len(as)
     /\ \A i \in 1..Len(bs) :
          /\ tr[i].kind = "beforeDelete" /\ tr[i].plugin = bs[i]
          /\ tr[i].id = RefBeforeDelete(SubSeq(bs, 1, i - 1), id)
     /\ tr[Len(bs) + 1].kind = "provider.delete" /\ tr[Len(bs) + 1].id = cid
     /\ \A i \in 1..Len(as) :
          /\ tr[Len(bs) + 1 + i].kind = "afterDelete"
          /\ tr[Len(bs) + 1 + i].plugin = as[i]
          /\ tr[Len(bs) + 1 + i].id = cid

\* C12: a delete(id) that resolved made exactly these calls, in this order:
\* the beforeDelete chain on id, provider.delete with the chained id, the
\* afterDelete hooks with that same chained id; and an afterDelete hook is
\* called only after provider.delete has succeeded.
C12_DeletePipelineOrder ==
  \A t \in Deletes :
    LET tk == task[t] IN
    /\ tk.pc = "resolved" => DeletePipelineRan(tk.trace, orderedPlugins, tk.id)
    /\ \A i \in 1..Len(tk.trace) :
         tk.trace[i].kind = "afterDelete" =>
           /\ \E j \in 1..(i - 1) : tk.trace[j].kind = "provider.delete"
           /\ EventsOf(tk.trace, "provider.delete.throw") = <<>>
           /\ tk.resp \in {"ok", "not found"}

\* C12 witness: delete('i1') resolved through A1 and B, whose beforeDelete
\* hooks remapped the id twice, and both afterDelete hooks got the final id.
C12_Witness ==
  \E t \in Deletes :
    /\ task[t].pc = "resolved"
    /\ task[t].id = "i1" /\ task[t].curId = "k1"
    /\ PluginsOf(task[t].trace, "afterDelete") = <<"A1", "B">>
    /\ \A i \in 1..2 : EventsOf(task[t].trace, "afterDelete")[i].id = "k1"

\* C13: a delete whose id the backend does not hold (it was never uploaded,
\* or an earlier delete removed it) is not failed by the provider: no error
\* comes out of provider.delete, the only way the call can still reject is a
\* throwing afterDelete hook, and without such hooks it resolves.
C13_DeleteNotFoundDoesNotRaise ==
  \A t \in Deletes :
    LET tk == task[t] IN
    tk.resp = "not found" =>
      /\ EventsOf(tk.trace, "provider.delete.throw") = <<>>
      /\ tk.pc = "rejected" => tk.error.code = "afterDelete"
      /\ WithHook(tk.list, "afterDelete") = <<>> => tk.pc = "resolved"

\* C13 witness: with no delete hook in the way, a delete resolved although
\* the backend answered not found.
C13_Witness ==
  \E t \in Deletes :
    /\ task[t].pc = "resolved" /\ task[t].resp = "not found"
    /\ Len(task[t].trace) = 1
    /\ task[t].trace[1].kind = "provider.delete" /\ task[t].trace[1].id = task[t].id

\* tr is the whole upload pipeline over the plugins of list for (file,
\* options), and result is what it returns.
UploadPipelineRan(tr, list, file, options, result) ==
  LET bs == WithHook(list, "beforeUpload")
      as == WithHook(list, "afterUpload")
      eff == RefBefore(bs, file, options)
      raw == ProviderUpload(eff.file, eff.options)
  IN /\ Len(tr) = Len(bs) + 1 + Len(as)
     /\ \A i \in 1..Len(bs) : tr[i].kind = "beforeUpload" /\ tr[i].plugin = bs[i]
     /\ Len(bs) > 0 => tr[1].file = file /\ tr[1].options = options
     /\ tr[Len(bs) + 1].kind = "provider.upload"
     /\ tr[Len(bs) + 1].file = eff.file /\ tr[Len(bs) + 1].options = eff.options
     /\ \A i \in 1..Len(as) :
          tr[Len(bs) + 1 + i].kind = "afterUpload" /\ tr[Len(bs) + 1 + i].plugin = as[i]
     /\ result = RefAfter(as, raw)

\* The number of events of the given kind and plugin in the traces of a batch.
RECURSIVE BatchCount(_, _, _)
BatchCount(btrace, kind, p) ==
  IF btrace = <<>> THEN 0
  ELSE Len(SelectSeq(Head(btrace), LAMBDA e : e.kind = kind /\ e.plugin = p))
       + BatchCount(Tail(btrace), kind, p)

\* The batch calls in flight or settled.
Batches(op) == {t \in Tasks : task[t].batch = op}

\* C11: uploadMultiple(files, options) runs the upload pipeline once per
\* element, in input order, element i+1 starting only when element i is over:
\* when it resolves every beforeUpload hook has fired |files| times,
\* provider.upload was called |files| times and results[i] is the result of
\* files[i]; no batch method of the provider is called.  deleteMultiple does
\* the same with the delete pipeline.
C11_BatchRunsSinglePipeline ==
  /\ \A t \in Batches("uploadMultiple") :
       LET tk == task[t] IN
       /\ ~tk.bdone => Len(tk.btrace) = tk.k - 1 /\ Len(tk.results) = tk.k - 1
       /\ \A i \in 1..Len(tk.results) :
            UploadPipelineRan(tk.btrace[i], tk.exec0, tk.args[i], tk.options, tk.results[i])
       /\ (tk.bdone /\ tk.pc = "resolved") =>
            /\ Len(tk.results) = Len(tk.args)
            /\ BatchCount(tk.btrace, "provider.upload", None) = Len(tk.args)
            /\ \A i \in 1..Len(tk.exec0) :
                 "beforeUpload" \in Plugin[tk.exec0[i]].hooks =>
                   BatchCount(tk.btrace, "beforeUpload", tk.exec0[i]) = Len(tk.args)
       /\ \A i \in 1..Len(tk.btrace) : \A j \in 1..Len(tk.btrace[i]) :
            tk.btrace[i][j].kind # "provider.uploadMultiple"
  /\ \A t \in Batches("deleteMultiple") :
       LET tk == task[t] IN
       /\ ~tk.bdone => Len(tk.btrace) = tk.k - 1 /\ Len(tk.results) = tk.k - 1
       /\ \A i \in 1..Len(tk.results) :
            DeletePipelineRan(tk.btrace[i], tk.exec0, tk.args[i])
       /\ (tk.bdone /\ tk.pc = "resolved") =>
            /\ Len(tk.results) = Len(tk.args)
            /\ BatchCount(tk.btrace, "provider.delete", None) = Len(tk.args)
       /\ \A i \in 1..Len(tk.btrace) : \A j \in 1..Len(tk.btrace[i]) :
            tk.btrace[i][j].kind # "provider.deleteMultiple"

\* C11 witness: uploadMultiple([f2, f1]) resolved with two plugins that hook
\* beforeUpload registered, and its results are those of f2 and f1.
C11_Witness ==
  \E t \in Batches("uploadMultiple") :
    /\ task[t].bdone /\ task[t].pc = "resolved"
    /\ task[t].args = <<"f2", "f1">>
    /\ Len(WithHook(task[t].exec0, "beforeUpload")) = 2
    /\ task[t].results[1].id = "f2" /\ task[t].results[2].id = "f1"

\* The execution slots a sequence of registrations leaves: one slot per name,
\* in the order the names were first registered, each holding the plugin
\* registered last under its name.
RECURSIVE RefSlots(_)
RefSlots(regs) ==
  IF regs = <<>> THEN <<>>
  ELSE LET n == Plugin[Head(regs)].name
           same == SelectSeq(regs, LAMBDA q : Plugin[q].name = n)
       IN <<same[Len(same)]>> \o RefSlots(SelectSeq(regs, LAMBDA q : Plugin[q].name # n))

\* C14: after completed register calls (and nothing else), an overridden name
\* keeps the slot of its first registration: getAll() lists the slots in that
\* order with the latest plugin of each name, and a hook run visits them in
\* that order.
C14_OverrideKeepsSlot ==
  regsOnly =>
    /\ Idle => Rebuilt = RefSlots(registered)
    /\ \A t \in Tasks :
         LET tk == task[t] IN
         /\ tk.op = "getAll" => tk.ret = RefSlots(registered)
         /\ tk.op = "upload" =>
              /\ IsPrefix(PluginsOf(tk.trace, "beforeUpload"),
                          WithHook(RefSlots(registered), "beforeUpload"))
              /\ EventsOf(tk.trace, "provider.upload") # <<>> =>
                   PluginsOf(tk.trace, "beforeUpload") =
                     WithHook(RefSlots(registered), "beforeUpload")

\* C14 witness: after register(A1), register(B), register(A2) a hook run has
\* visited A2 before B.
C14_Witness ==
  /\ regsOnly /\ registered = <<"A1", "B", "A2">>
  /\ \E t \in Tasks :
       /\ task[t].op = "upload" /\ task[t].pc = "provider"
       /\ PluginsOf(task[t].trace, "beforeUpload") = <<"A2", "B">>
       /\ Rebuilt = <<"A2", "B">>

\* C15: whenever the dirty flag is clear, orderedPlugins is the registry's
\* plugins in registry order; so a getAll returns, and a hook run of upload or
\* delete walks, exactly the plugins that are registered when it starts.
C15_NoStaleOrdering ==
  /\ ~cacheInvalid => orderedPlugins = pluginCache
  /\ \A t \in Tasks :
       LET tk == task[t] IN
       /\ tk.op = "getAll" => tk.ret = tk.cache0
       /\ tk.op \in {"upload", "delete"} => tk.list = pluginCache

\* C15 witness: A1 was unregistered from a registry that also held B, and the
\* getAll that follows returns the one plugin left.
C15_Witness ==
  /\ removals["A1"] = 1 /\ pluginCache = <<"B">>
  /\ \E t \in Tasks : task[t].op = "getAll" /\ task[t].ret = <<"B">>

\* The pipeline positions at which a call awaits a hook or the provider.
AwaitingCall == {"beforeUpload", "provider", "afterUpload", "onError",
                 "beforeDelete", "provider.delete", "afterDelete"}

RefRegisterCache(c, p) ==
  IF \E i \in 1..Len(c) : Plugin[c[i]].name = Plugin[p].name
  THEN [i \in 1..Len(c) |-> IF Plugin[c[i]].name = Plugin[p].name THEN p ELSE c[i]]
  ELSE c \o <<p>>

\* The destroy and init calls one completed register(p) makes on registry c.
RefRegisterEvents(c, p) ==
  LET old == SelectSeq(c, LAMBDA q : Plugin[q].name = Plugin[p].name)
  IN (IF old # <<>> /\ Plugin[old[1]].hasDestroy
        THEN <<LEv("destroy.begin", old[1]), LEv("destroy.end", old[1])>> ELSE <<>>)
     \o (IF Plugin[p].hasInit
           THEN <<LEv("init.begin", p), LEv("init.end", p)>> ELSE <<>>)

\* The registry that register calls on plugs, each awaited, leave of c.
RECURSIVE RefRegisterSeq(_, _)
RefRegisterSeq(c, plugs) ==
  IF plugs = <<>> THEN c
  ELSE RefRegisterSeq(RefRegisterCache(c, Head(plugs)), Tail(plugs))

\* C17: registerAll(plugins) does what awaited register calls on the elements
\* in list order do.  A register call that resolved has made the calls and
\* left the registry of the reference above; every element of a registerAll
\* has made the same calls on the registry its predecessors left, and when
\* registerAll resolves the registry and the execution order are those of the
\* sequence of register calls (a later duplicate name overriding the earlier).
C17_RegisterAllIsSequentialRegister ==
  \A t \in Tasks :
    LET tk == task[t] IN
    /\ (tk.op = "register" /\ tk.batch = "none" /\ tk.pc = "resolved") =>
         /\ tk.trace = RefRegisterEvents(tk.cache0, tk.plugin)
         /\ pluginCache = RefRegisterCache(tk.cache0, tk.plugin)
    /\ tk.batch = "registerAll" =>
         /\ ~tk.bdone => Len(tk.results) = tk.k - 1
         /\ \A i \in 1..Len(tk.results) :
              /\ tk.results[i] = tk.args[i]
              /\ tk.btrace[i] =
                   RefRegisterEvents(RefRegisterSeq(tk.cache0, SubSeq(tk.args, 1, i - 1)),
                                     tk.args[i])
         /\ (tk.bdone /\ tk.pc = "resolved") =>
              /\ Len(tk.results) = Len(tk.args)
              /\ pluginCache = RefRegisterSeq(tk.cache0, tk.args)
              /\ Rebuilt = RefRegisterSeq(tk.cache0, tk.args)

\* C17 witness: registerAll([A1, A2]) resolved on a registry that held B: A2
\* has taken A1's slot behind B, A1 having been destroyed before A2's init.
C17_Witness ==
  \E t \in Tasks :
    /\ task[t].batch = "registerAll" /\ task[t].bdone /\ task[t].pc = "resolved"
    /\ task[t].cache0 = <<"B">> /\ task[t].args = <<"A1", "A2">>
    /\ pluginCache = <<"B", "A2">>
    /\ task[t].btrace[2] = <<LEv("destroy.begin", "A1"), LEv("destroy.end", "A1"),
                             LEv("init.begin", "A2"), LEv("init.end", "A2")>>

\* The calls of the given PluginManager method in flight or settled.
Calls(op) == {t \in Tasks : task[t].op = op /\ task[t].batch = "none"}

\* C18: an unregister(name) that resolved returns true iff the name was
\* registered when it was called.  If it was, the plugin's destroy (when it
\* has one) ran once, the name is gone, size is one less and the execution
\* order is the old one without the plugin; if not, no callback ran and the
\* registry and the execution order are what they were.
C18_UnregisterReturnAndEffect ==
  \A t \in Calls("unregister") :
    LET tk == task[t]
        was == SelectSeq(tk.cache0, LAMBDA q : Plugin[q].name = tk.name)
    IN tk.pc = "resolved" =>
         /\ tk.removed = (was # <<>>)
         /\ tk.removed =>
              /\ tk.trace = IF Plugin[was[1]].hasDestroy
                              THEN <<LEv("destroy.begin", was[1]), LEv("destroy.end", was[1])>>
                              ELSE <<>>
              /\ \A i \in 1..Len(pluginCache) : Plugin[pluginCache[i]].name # tk.name
              /\ Len(pluginCache) = tk.size0 - 1
              /\ pluginCache = SelectSeq(tk.cache0, LAMBDA q : q # was[1])
              /\ Rebuilt = SelectSeq(tk.exec0, LAMBDA q : q # was[1])
         /\ ~tk.removed =>
              /\ tk.trace = <<>>
              /\ pluginCache = tk.cache0
              /\ Rebuilt = tk.exec0

\* C18 witness: unregister('B') returned true on a registry of A1 and B, B's
\* destroy having run, and A1 is what is left.
C18_Witness ==
  \E t \in Calls("unregister") :
    /\ task[t].pc = "resolved" /\ task[t].removed
    /\ task[t].cache0 = <<"A1", "B">> /\ task[t].name = "B"
    /\ destroyCount["B"] = 1
    /\ pluginCache = <<"A1">>

\* C19: when clear() has resolved, destroy has been called once on every
\* plugin that was registered and has one, the registry is empty (size 0),
\* and the execution list getAll returns and hook runs walk is empty.
C19_ClearDestroysAllAndEmpties ==
  \A t \in Calls("clear") :
    LET tk == task[t]
        ds == SelectSeq(tk.cache0, LAMBDA q : Plugin[q].hasDestroy)
    IN tk.pc = "resolved" =>
         /\ PluginsOf(tk.trace, "destroy.begin") = ds
         /\ PluginsOf(tk.trace, "destroy.end") = ds
         /\ Len(tk.trace) = 2 * Len(ds)
         /\ pluginCache = <<>>
         /\ Rebuilt = <<>>

\* C19 witness: clear() resolved on a registry of A1 and B, the destroy of
\* both having run.
C19_Witness ==
  \E t \in Calls("clear") :
    /\ task[t].pc = "resolved"
    /\ task[t].cache0 = <<"A1", "B">>
    /\ PluginsOf(task[t].trace, "destroy.end") = <<"A1", "B">>
    /\ destroyCount["A1"] = 1 /\ destroyCount["B"] = 1

\* The key paths of the feature matrix whose value is the boolean true.
TruePaths == {<<"capabilities", "signedUploads">>}

\* The string that names a key path: its keys with a dot between them.
RECURSIVE Dotted(_)
Dotted(at) ==
  IF Len(at) <= 1 THEN at ELSE <<Head(at), Dot>> \o Dotted(Tail(at))

\* C20: supports(feature) never raises, and it returns true exactly for the
\* strings that name, key by key with dots between, a value of the feature
\* matrix that is the boolean true; a missing key, an object, a number, an
\* array, a false flag, an empty piece all give false.
C20_SupportsTrueLeafOnly ==
  \A t \in Calls("supports") :
    task[t].pc # "call" =>
      /\ task[t].pc = "resolved"
      /\ task[t].supported = (task[t].args \in {Dotted(at) : at \in TruePaths})

\* C20 witness: supports('capabilities.signedUploads') returned true.
C20_Witness ==
  \E t \in Calls("supports") :
    /\ task[t].pc = "resolved" /\ task[t].supported
    /\ task[t].args = <<"capabilities", Dot, "signedUploads">>

\* The (id, transform) the beforeGetUrl hooks of plugs make of (id, transform):
\* an answered object replaces both.
RECURSIVE RefBeforeGetUrl(_, _, _)
RefBeforeGetUrl(plugs, id, transform) ==
  IF plugs = <<>> THEN [id |-> id, transform |-> transform]
  ELSE LET r == BeforeGetUrlHook(Head(plugs), id, transform)
       IN IF r.void THEN RefBeforeGetUrl(Tail(plugs), id, transform)
                    ELSE RefBeforeGetUrl(Tail(plugs), r.id, r.transform)

ErrorCodes ==
  {"INVALID_CONFIG", "INVALID_CREDENTIALS", "QUOTA_EXCEEDED", "NETWORK_ERROR",
   "FILE_TOO_LARGE", "INVALID_FILE_TYPE", "FILE_NOT_FOUND", "UPLOAD_FAILED",
   "DELETE_FAILED", "RATE_LIMITED", "UNSUPPORTED_OPERATION"}

\* C22: search hands the query to provider.search when the provider has one;
\* when it has none, search fails, without calling a hook or the provider,
\* with an error that carries a code of the taxonomy and names the provider.
C22_SearchPassthroughOrTypedError ==
  \A t \in Calls("search") :
    LET tk == task[t] IN
    /\ orderedPlugins = tk.exec0
    /\ tk.hasSearch =>
         /\ tk.trace = <<GEv("provider.search", None, tk.query, "")>>
         /\ tk.pc = "resolved" => tk.results = ProviderSearch(tk.query)
    /\ ~tk.hasSearch =>
         /\ tk.pc = "rejected" /\ tk.trace = <<>>
         /\ tk.error.isError /\ tk.error.message = ProviderName
         /\ tk.error.code \in ErrorCodes

\* C23: once the caller has changed the array getAll returned, the registry
\* (size, has, get) and the execution list a later getAll returns are what
\* they were; and every hook run walks the registered plugins in registry
\* order.
C23_GetAllDefensiveCopy ==
  /\ \A t \in Calls("getAll") :
       task[t].k = 1 => pluginCache = task[t].cache0 /\ Rebuilt = task[t].cache0
  /\ \A t \in Calls("getUrlAsync") : task[t].list = pluginCache

\* C23 witness: the caller reversed the array of two plugins it got from
\* getAll, and the manager's list still is in registration order.
C23_Witness ==
  \E t \in Calls("getAll") :
    /\ task[t].k = 1
    /\ task[t].cache0 = <<"A1", "B">> /\ task[t].ret = <<"B", "A1">>
    /\ Rebuilt = <<"A1", "B">>

\* The events of a withRetry call that are calls of fn, and its failures.
FnCalls(tr) == EventsOf(tr, "fn")
FnThrows(tr) == EventsOf(tr, "fn.throw")

\* What withRetry makes of a thrown value: an Error as it is, anything else
\* wrapped into a new Error with its text as message.
RefLastError(e) ==
  IF e.isError THEN e ELSE [isError |-> TRUE, code |-> "", message |-> e.message]

\* The failed attempt of event i was retryable: by the caller's shouldRetry
\* when there is one (its answer is the next event), else by code or message.
RetryableAt(tk, i) ==
  IF tk.cfg.shouldRetry
  THEN i < Len(tk.trace) /\ tk.trace[i + 1].kind = "shouldRetry" /\ tk.trace[i + 1].answer
  ELSE LET e == RefLastError(tk.trace[i].error)
       IN IF e.code # "" THEN e.code \in tk.cfg.retryableErrors
          ELSE e.message \in {"Network error", "Connection TIMEOUT", "socket hang up"}

\* C24: withRetry(fn, {maxRetries: m}) calls fn at most m + 1 times; when it
\* has rejected and every attempt failed with a retryable error, fn was
\* called exactly m + 1 times and the rejection is the last attempt's error.
C24_AtMostMaxRetriesPlusOne ==
  \A t \in Calls("withRetry") :
    LET tk == task[t]
        tr == tk.trace
        th == FnThrows(tr)
    IN /\ Len(FnCalls(tr)) <= tk.cfg.maxRetries + 1
       /\ (/\ tk.pc = "rejected"
           /\ \A i \in 1..Len(tr) : tr[i].kind = "fn.throw" => RetryableAt(tk, i)) =>
            /\ Len(FnCalls(tr)) = tk.cfg.maxRetries + 1
            /\ Len(th) = tk.cfg.maxRetries + 1
            /\ tk.error = RefLastError(th[Len(th)].error)
            /\ th[Len(th)].error.isError => tk.error = th[Len(th)].error

\* C24 witness: with maxRetries 2 and no custom shouldRetry, fn failed three
\* times with a retryable error and withRetry rejected with the third one.
C24_Witness ==
  \E t \in Calls("withRetry") :
    LET tk == task[t] IN
    /\ tk.pc = "rejected" /\ tk.cfg.maxRetries = 2 /\ ~tk.cfg.shouldRetry
    /\ Len(FnCalls(tk.trace)) = 3
    /\ \A i \in 1..Len(tk.trace) : tk.trace[i].kind = "fn.throw" => RetryableAt(tk, i)
    /\ tk.error.code = "UPLOAD_FAILED"
    /\ FnThrows(tk.trace)[1].error.code = "NETWORK_ERROR"

\* C25: without a custom shouldRetry, a MediaError whose code is not in
\* retryableErrors ends the call: nothing follows the failed attempt (no
\* onRetry, no sleep, no further call of fn) and withRetry rejects with that
\* same error.
C25_NonRetryableNotRetried ==
  \A t \in Calls("withRetry") :
    LET tk == task[t] IN
    ~tk.cfg.shouldRetry =>
      \A i \in 1..Len(tk.trace) :
        (/\ tk.trace[i].kind = "fn.throw"
         /\ tk.trace[i].error.isError /\ tk.trace[i].error.code # ""
         /\ tk.trace[i].error.code \notin tk.cfg.retryableErrors) =>
          /\ i = Len(tk.trace)
          /\ tk.pc = "rejected"
          /\ tk.error = tk.trace[i].error

\* C25 witness: after one retry fn failed with INVALID_FILE_TYPE (whose
\* message reads like a network error) with retries left, and withRetry
\* rejected with it.
C25_Witness ==
  \E t \in Calls("withRetry") :
    LET tk == task[t] IN
    /\ tk.pc = "rejected" /\ ~tk.cfg.shouldRetry /\ tk.cfg.maxRetries = 2
    /\ Len(FnCalls(tk.trace)) = 2
    /\ tk.error.code = "INVALID_FILE_TYPE"

\* C26: before the k-th retry onRetry (when given) is called with k, the
\* error of the attempt that failed and the delay, and then withRetry sleeps
\* that delay: retryDelay * 2^(k-1) with exponential backoff, retryDelay
\* without.
C26_BackoffDelay ==
  \A t \in Calls("withRetry") :
    LET tk == task[t]
        tr == tk.trace
        Expected(k) == IF tk.cfg.exponentialBackoff THEN tk.cfg.retryDelay * 2^(k - 1)
                       ELSE tk.cfg.retryDelay
    IN \A i \in 1..Len(tr) :
         /\ tr[i].kind = "sleep" =>
              /\ tr[i].n = Len(SelectSeq(SubSeq(tr, 1, i), LAMBDA e : e.kind = "sleep"))
              /\ tr[i].delay = Expected(tr[i].n)
              /\ tk.cfg.onRetry =>
                   tr[i - 1].kind = "onRetry" /\ tr[i - 1].n = tr[i].n
              /\ i < Len(tr) => tr[i + 1].kind = "fn" /\ tr[i + 1].n = tr[i].n
         /\ tr[i].kind = "onRetry" =>
              /\ tk.cfg.onRetry
              /\ tr[i].delay = Expected(tr[i].n)
              /\ tr[i].error = RefLastError(FnThrows(SubSeq(tr, 1, i))[tr[i].n].error)
              /\ Len(FnThrows(SubSeq(tr, 1, i))) = tr[i].n
              /\ tr[i + 1] = REv("sleep", tr[i].n, NoError, tr[i].delay)

\* C26 witness: with retryDelay 100 and exponential backoff, onRetry was
\* called with (1, e, 100) and then with (2, e', 200).
C26_Witness ==
  \E t \in Calls("withRetry") :
    LET on == EventsOf(task[t].trace, "onRetry") IN
    /\ task[t].cfg.retryDelay = 100 /\ task[t].cfg.exponentialBackoff
    /\ Len(on) = 2
    /\ on[1].n = 1 /\ on[1].delay = 100
    /\ on[2].n = 2 /\ on[2].delay = 200

\* C27: a withRetry that resolved returns the value of the first attempt
\* that succeeded, which is the last thing that happened: fn was called j
\* times, j - 1 of them failed, and j <= maxRetries + 1.
C27_FirstSuccessWins ==
  \A t \in Calls("withRetry") :
    LET tk == task[t]
        tr == tk.trace
    IN /\ \A i \in 1..Len(tr) : tr[i].kind = "fn.ok" => i = Len(tr) /\ tk.pc = "resolved"
       /\ tk.pc = "resolved" =>
            /\ tr[Len(tr)].kind = "fn.ok" /\ tk.value = tr[Len(tr)].value
            /\ Len(FnCalls(tr)) = Len(FnThrows(tr)) + 1
            /\ Len(FnCalls(tr)) <= tk.cfg.maxRetries + 1

\* C27 witness: the third attempt was the first to succeed, with v2.
C27_Witness ==
  \E t \in Calls("withRetry") :
    /\ task[t].pc = "resolved" /\ task[t].value = "v2"
    /\ Len(FnCalls(task[t].trace)) = 3 /\ Len(FnThrows(task[t].trace)) = 2

\* C28: a custom shouldRetry is called after every failed attempt with the
\* error and the zero-based attempt index, and its answer alone decides:
\* false ends the call with that error, true (with attempts left) leads to
\* the next retry, whatever the error's code or message.
C28_CustomShouldRetryDecides ==
  \A t \in Calls("withRetry") :
    LET tk == task[t]
        tr == tk.trace
    IN /\ ~tk.cfg.shouldRetry => EventsOf(tr, "shouldRetry") = <<>>
       /\ tk.cfg.shouldRetry =>
            \A i \in 1..Len(tr) :
              tr[i].kind = "fn.throw" =>
                /\ i < Len(tr)
                /\ tr[i + 1].kind = "shouldRetry" /\ tr[i + 1].n = tr[i].n
                /\ tr[i + 1].error = RefLastError(tr[i].error)
                /\ tr[i].n = Len(FnCalls(SubSeq(tr, 1, i))) - 1
                /\ ~tr[i + 1].answer =>
                     /\ i + 1 = Len(tr) /\ tk.pc = "rejected"
                     /\ tk.error = RefLastError(tr[i].error)
                /\ (tr[i + 1].answer /\ tr[i].n < tk.cfg.maxRetries) =>
                     /\ i + 1 < Len(tr)
                     /\ tr[i + 2].kind \in {"onRetry", "sleep"}

\* C28 witness: the custom shouldRetry answered true for an error that is
\* retryable neither by code nor by message, fn was called again, and the
\* second answer, false for a NETWORK_ERROR, ended the call.
C28_Witness ==
  \E t \in Calls("withRetry") :
    LET tk == task[t]
        sr == EventsOf(tk.trace, "shouldRetry")
    IN /\ tk.cfg.shouldRetry /\ tk.pc = "rejected" /\ tk.cfg.maxRetries = 2
       /\ Len(sr) = 2
       /\ sr[1].error.message = "Custom error" /\ sr[1].answer /\ sr[1].n = 0
       /\ sr[2].error.code = "NETWORK_ERROR" /\ ~sr[2].answer /\ sr[2].n = 1

\* The extension a file name ends with, lower-cased: from its last dot on.
RefExt(name) ==
  LET dots == {i \in 1..Len(name) : name[i] = "."}
  IN IF dots = {} THEN <<>>
     ELSE LET last == CHOOSE i \in dots : \A j \in dots : j <= i
          IN [k \in 1..(Len(name) - last + 1) |-> LowerToken(name[last + k - 1])]

\* What the plugin validates of a call: size, name and MIME type of a File;
\* byte length and options.filename (or 'unknown') of a Buffer, no type.
RefInfo(tk) ==
  LET name == IF tk.file.isFile THEN tk.file.name
              ELSE IF tk.options.filename = <<>> THEN <<"unknown">>
              ELSE tk.options.filename
  IN [size |-> tk.file.size, name |-> name, ext |-> RefExt(name),
      type |-> IF tk.file.isFile THEN tk.file.type ELSE <<>>]

\* The five checks before the custom validator, in the order of the claim.
\* A check is configured by a size limit other than 0, a non-empty allow
\* list, or a block list.
RefConfigured(options, c) ==
  CASE c = 1 -> options.maxSize.given /\ options.maxSize.value > 0
    [] c = 2 -> options.minSize.given /\ options.minSize.value > 0
    [] c = 3 -> options.allowedTypes.given /\ options.allowedTypes.value # <<>>
    [] c = 4 -> options.blockedExtensions.given
    [] c = 5 -> options.allowedExtensions.given /\ options.allowedExtensions.value # <<>>

\* A MIME type matches a pattern: the pattern itself, or 'major/*' for any
\* type of that major type.
RefTypeMatches(pattern, type) ==
  \/ pattern = type
  \/ /\ Len(pattern) = 3 /\ pattern[2] = "/" /\ pattern[3] = "*"
     /\ Len(type) = 3 /\ type[2] = "/" /\ type[1] = pattern[1]

Range(s) == {s[i] : i \in 1..Len(s)}

RefPasses(options, info, c) ==
  CASE c = 1 -> info.size <= options.maxSize.value
    [] c = 2 -> info.size >= options.minSize.value
    [] c = 3 -> \E pattern \in Range(options.allowedTypes.value) :
                  RefTypeMatches(pattern, info.type)
    [] c = 4 -> info.ext \notin Range(options.blockedExtensions.value)
    [] c = 5 -> info.ext \in Range(options.allowedExtensions.value)

\* The type of the ValidationError of each check.
RefErrorType(c) ==
  CASE c \in {1, 2} -> "SIZE" [] c = 3 -> "TYPE" [] c \in {4, 5} -> "EXTENSION"
    [] c = 6 -> "CUSTOM"

HookInstances == {t \in Tasks : task[t].op = "useMediaUpload"}

\* The callbacks a config calls among the given ones, as events.
CalledIf(given, event) == IF given THEN <<event>> ELSE <<>>

UploadCalls == {t \in Tasks : task[t].op = "upload"}

\* The plugins whose hook of a kind an upload call has invoked so far.
Visited(tk, kind) == PluginsOf(tk.trace, kind)

\* C31: the plugin list is not a snapshot of the upload call: when the
\* provider call settles, the afterUpload or onError run that starts then
\* visits the plugins installed at that instant, in the registry's order,
\* whatever the list was when the beforeUpload chain ran.
C31_RunnersReadLiveRegistry ==
  [][\A t \in Tasks :
       (/\ task[t].op = "upload" /\ task[t].pc = "provider"
        /\ task'[t].pc # "provider") =>
         LET kind == IF task'[t].pc \in {"afterUpload", "resolved"}
                       THEN "afterUpload" ELSE "onError"
             live == WithHook(pluginCache, kind)
         IN /\ task'[t].list = pluginCache
            /\ Visited(task'[t], kind) = IF live = <<>> THEN <<>> ELSE <<live[1]>>
            /\ task'[t].pc \in {"resolved", "rejected"} <=> live = <<>>]_vars

\* C31 witness: B was registered while the provider call of an upload was
\* pending; B's afterUpload was invoked for that upload, B's beforeUpload
\* was not, although the beforeUpload chain had run A1's hook.
C31_Witness ==
  \E t \in UploadCalls :
    /\ "B" \in Range(Visited(task[t], "afterUpload"))
    /\ "B" \notin Range(Visited(task[t], "beforeUpload"))
    /\ "A1" \in Range(Visited(task[t], "beforeUpload"))
    /\ "beforeUpload" \in Plugin["B"].hooks

\* The events of a call at which something was thrown.
ThrowsOf(tr) ==
  SelectSeq(tr, LAMBDA e : e.kind \in {"beforeUpload.throw", "provider.throw",
                                       "afterUpload.throw", "onError.throw",
                                       "beforeDelete.throw", "provider.delete.throw",
                                       "afterDelete.throw"})

\* What a batch call that stopped at its k-th element leaves: the elements
\* before it went through (provider called, nothing thrown), the k-th one
\* threw the error the batch rejects with, nothing was handed over, and no
\* later element has any event.
RefStoppedAt(tk, k, providerKind) ==
  /\ k \in 1..Len(tk.args)
  /\ Len(tk.btrace) = k
  /\ Len(tk.results) = k - 1
  /\ tk.ret = <<>>
  /\ \A i \in 1..(k - 1) :
       /\ ThrowsOf(tk.btrace[i]) = <<>>
       /\ Len(EventsOf(tk.btrace[i], providerKind)) = 1
  /\ ThrowsOf(tk.btrace[k]) # <<>>
  /\ tk.error = ThrowsOf(tk.btrace[k])[Len(ThrowsOf(tk.btrace[k]))].error
  /\ BatchCount(tk.btrace, providerKind, None) \in {k - 1, k}

\* C32: uploadMultiple hands over all results or none: when element k
\* fails it rejects with that element's error, the results of elements
\* 1..k-1 (uploaded at the provider) are not returned, and no later element
\* reaches a hook or the provider; when it resolves it returns one result
\* per element.  deleteMultiple stops at the first failing id in the same
\* way.
C32_BatchAllOrNothing ==
  /\ \A t \in Batches("uploadMultiple") :
       LET tk == task[t] IN
       /\ (tk.bdone /\ tk.pc = "rejected") =>
            /\ RefStoppedAt(tk, Len(tk.btrace), "provider.upload")
            /\ \A i \in 1..Len(tk.btrace) : tk.btrace[i][1].file = tk.args[i]
       /\ (tk.bdone /\ tk.pc = "resolved") =>
            tk.ret = tk.results /\ Len(tk.ret) = Len(tk.args)
       /\ ~tk.bdone => tk.ret = <<>>
  /\ \A t \in Batches("deleteMultiple") :
       LET tk == task[t] IN
       /\ (tk.bdone /\ tk.pc = "rejected") =>
            RefStoppedAt(tk, Len(tk.btrace), "provider.delete")
       /\ (tk.bdone /\ tk.pc = "resolved") => Len(tk.btrace) = Len(tk.args)

\* C32 witness: uploadMultiple([f1, f2]) rejected at f2 with the provider's
\* error after f1 had been uploaded; the one result it had is not returned.
C32_Witness ==
  \E t \in Batches("uploadMultiple") :
    LET tk == task[t] IN
    /\ tk.bdone /\ tk.pc = "rejected"
    /\ tk.args = <<"f1", "f2">>
    /\ Len(tk.results) = 1 /\ tk.ret = <<>>
    /\ Len(EventsOf(tk.btrace[1], "provider.upload")) = 1
    /\ tk.error.code = "NETWORK_ERROR"

\* C33: in upload the onError fan-out runs iff provider.upload rejected or
\* an afterUpload hook threw; after a throwing afterUpload hook the provider
\* has already stored the file and the caller observes that hook's error; a
\* failing beforeUpload hook never leads to onError, and neither does a
\* failing delete or getUrlAsync.
C33_OnErrorOnlyAfterProviderCall ==
  \A t \in Tasks :
    LET tk == task[t]
        tr == tk.trace
        handlers == WithHook(pluginCache, "onError")
        Failed(i) == tr[i].kind \in {"provider.throw", "afterUpload.throw"}
    IN /\ tk.op = "upload" =>
            /\ \A i \in 1..Len(tr) :
                 /\ tr[i].kind = "onError" => \E j \in 1..(i - 1) : Failed(j)
                 /\ (Failed(i) /\ handlers # <<>>) =>
                      /\ i < Len(tr)
                      /\ tr[i + 1].kind = "onError" /\ tr[i + 1].plugin = handlers[1]
                 /\ (Failed(i) /\ handlers = <<>>) => i = Len(tr) /\ tk.pc = "rejected"
                 /\ tr[i].kind = "beforeUpload.throw" =>
                      i = Len(tr) /\ EventsOf(tr, "onError") = <<>>
                 /\ (tr[i].kind = "afterUpload.throw" /\ tk.pc = "rejected") =>
                      /\ EventsOf(tr, "provider.upload") # <<>>
                      /\ EventsOf(tr, "provider.throw") = <<>>
                      /\ tk.error = tr[i].error
       /\ tk.op \in {"delete", "getUrlAsync"} => EventsOf(tr, "onError") = <<>>

\* C34: a register(plugin) that rejected left the registry in one of two
\* states.  When the displaced plugin's destroy rejected, the registry is
\* as before the call (the old plugin installed) and the new plugin's init
\* was never run.  When the new plugin's init rejected, the new plugin is
\* installed in the displaced one's place (has(name) is true and the next
\* hook run visits it) and the displaced plugin's destroy has completed.
C34_RegistryAfterFailedRegister ==
  \A t \in Calls("register") :
    LET tk == task[t]
        last == tk.trace[Len(tk.trace)]
    IN tk.pc = "rejected" =>
         /\ last.kind \in {"destroy.throw", "init.throw"}
         /\ last.kind = "destroy.throw" =>
              /\ last.plugin = tk.existing /\ tk.existing # None
              /\ pluginCache = tk.cache0
              /\ CacheGet(pluginCache, tk.name) = tk.existing
              /\ EventsOf(tk.trace, "init.begin") = <<>>
              /\ tk.error = HookError(tk.existing, "destroy")
         /\ last.kind = "init.throw" =>
              /\ last.plugin = tk.plugin
              /\ CacheHas(pluginCache, tk.name)
              /\ CacheGet(pluginCache, tk.name) = tk.plugin
              /\ Len(pluginCache) = Len(tk.cache0) + (IF tk.existing = None THEN 1 ELSE 0)
              /\ \A i \in 1..Len(tk.cache0) :
                   pluginCache[i] = IF Plugin[tk.cache0[i]].name = tk.name
                                      THEN tk.plugin ELSE tk.cache0[i]
              /\ tk.plugin \in Range(Rebuilt)
              /\ tk.existing \notin Range(Rebuilt) \/ tk.existing = tk.plugin
              /\ (tk.existing # None /\ Plugin[tk.existing].hasDestroy) =>
                   PluginsOf(tk.trace, "destroy.end") = <<tk.existing>>
              /\ tk.error = HookError(tk.plugin, "init")

\* C34 witness: with A1 and B installed, register(A2) destroyed A1 and
\* installed A2 in its place, then A2's init rejected: the registry holds A2
\* and B.
C34_Witness ==
  \E t \in Calls("register") :
    /\ task[t].pc = "rejected" /\ task[t].plugin = "A2" /\ task[t].existing = "A1"
    /\ task[t].cache0 = <<"A1", "B">>
    /\ pluginCache = <<"A2", "B">>
    /\ task[t].error = HookError("A2", "init")

\* No lifecycle promise of the register calls in flight has settled yet.
NothingSettled ==
  \A t \in Tasks : \A i \in 1..Len(task[t].trace) :
    task[t].trace[i].kind \in {"destroy.begin", "init.begin"}

\* C35: when the constructor returns, the registry (names, order, plugin
\* objects), and with it the list a hook run started then would visit, is
\* the one an awaited registerAll(plugins) leaves on an empty manager: the
\* last plugin of each name, in the order of the names' first appearance.
C35_ConstructorEqualsRegisterAll ==
  (ConstructorReturned /\ NothingSettled) =>
    /\ pluginCache = RefSlots(ConstructorPlugins)
    /\ Rebuilt = RefSlots(ConstructorPlugins)

\* The positions of a call inside one of the six hook runs.
HookRunPcs ==
  {"beforeUpload", "afterUpload", "onError", "beforeDelete", "afterDelete", "beforeGetUrl"}

\* C36: one hook run visits a fixed list.  The run that starts in a step
\* takes the execution list of that instant (the registry's order after
\* rebuildCacheIfNeeded); every later step of the run, whatever register,
\* unregister or clear calls have completed meanwhile, invokes the next
\* plugin of that same list that has the hook, and the run ends without a
\* throw only when that list is exhausted.
C36_HookRunVisitsFixedList ==
  [][\A t \in Tasks :
       LET a == task[t]
           b == task'[t]
       IN /\ (b.op \in {"upload", "delete", "getUrlAsync"} /\ b.pc \in HookRunPcs) =>
               /\ IF a.op = b.op /\ a.pc = b.pc
                    THEN /\ b.list = a.list
                         /\ b # a => b.idx = NextHook(a.list, a.idx + 1, a.pc)
                    ELSE /\ b.list = Rebuilt
                         /\ b.idx = NextHook(Rebuilt, 1, b.pc)
               /\ PluginsOf(b.trace, b.pc) = WithHook(SubSeq(b.list, 1, b.idx), b.pc)
          /\ (/\ a.op \in {"upload", "delete", "getUrlAsync"} /\ a.pc \in HookRunPcs
              /\ b.op = a.op /\ b.pc # a.pc /\ b.error = a.error) =>
               /\ NextHook(a.list, a.idx + 1, a.pc) = 0
               /\ PluginsOf(b.trace, a.pc) = WithHook(a.list, a.pc)]_vars

\* A run is suspended on A1's hook, the next plugin of its list is B, and
\* unregister("B") has resolved meanwhile: B's destroy has completed, B is
\* out of the registry, and the run's next step still invokes B's hook.
C36_Witness ==
  /\ task[1].op = "upload" /\ task[1].pc = "beforeUpload"
  /\ task[1].list = <<"A1", "B">> /\ task[1].idx = 1
  /\ task[2].op = "unregister" /\ task[2].pc = "resolved" /\ task[2].name = "B"
  /\ destroyCount["B"] = 1
  /\ pluginCache = <<"A1">>

\* C37: two overlapping uploads do not see each other.  In every
\* interleaving of their steps, each call's k-th beforeUpload hook gets the
\* fold of that call's own (file, options) through the hooks before it,
\* provider.upload gets the whole fold, the k-th afterUpload hook gets the
\* fold of that call's provider result, and the call returns the last of
\* these: nothing of the other call enters.
C37_OverlappingUploadsIsolated ==
  \A t \in Uploads :
    LET tk == task[t]
        bs == WithHook(pluginCache, "beforeUpload")
        as == WithHook(pluginCache, "afterUpload")
        be == EventsOf(tk.trace, "beforeUpload")
        pe == EventsOf(tk.trace, "provider.upload")
        ae == EventsOf(tk.trace, "afterUpload")
        eff == RefBefore(bs, tk.file, tk.options)
        raw == ProviderUpload(eff.file, eff.options)
    IN /\ IsPrefix(PluginsOf(tk.trace, "beforeUpload"), bs)
       /\ \A k \in 1..Len(be) :
            LET acc == RefBefore(SubSeq(bs, 1, k - 1), tk.file, tk.options)
            IN be[k].file = acc.file /\ be[k].options = acc.options
       /\ \A k \in 1..Len(pe) : pe[k].file = eff.file /\ pe[k].options = eff.options
       /\ IsPrefix(PluginsOf(tk.trace, "afterUpload"), as)
       /\ \A k \in 1..Len(ae) : ae[k].result = RefAfter(SubSeq(as, 1, k - 1), raw)
       /\ tk.pc = "resolved" => tk.result = RefAfter(as, raw)

\* Two uploads of different files and options are suspended at the same
\* time, one inside its beforeUpload chain after a hook that changed its
\* options, the other inside its afterUpload chain.
C37_Witness ==
  /\ pluginCache = <<"A1", "B">>
  /\ task[1].op = "upload" /\ task[1].pc = "beforeUpload" /\ task[1].idx = 2
  /\ task[1].curOptions # task[1].options
  /\ task[2].op = "upload" /\ task[2].pc = "afterUpload"
  /\ task[2].file # task[1].file /\ task[2].curOptions # task[1].curOptions

\* The activations of upload that are suspended on an await.
HookCallsInFlight == {t \in Tasks : task[t].pc \in InFlightPcs}

\* C38: with overlapping upload calls on one hook, uploading is true as
\* long as some call is in flight, and when a call settles the state shows
\* that call's outcome: its result and no error when it resolved, its error
\* and no result when it rejected.
C38_OverlappingCallsState ==
  [][/\ (\E t \in Tasks : task'[t].pc \in InFlightPcs) => task'[1].uploading
     /\ \A t \in Tasks :
          (task'[t].k # task[t].k \/ task'[t].pc # task[t].pc) =>
            /\ task'[t].pc = "resolved" =>
                 task'[1].result = task'[t].ret /\ task'[1].error = NoError
            /\ task'[t].pc = "rejected" =>
                 task'[1].error = task'[t].errArg /\ task'[1].result = NoResult]_vars

\* The metadata key each bundled plugin writes.
OwnKey(p) ==
  CASE p = "retry" -> "_retry"
    [] p = "file-validation" -> "validation"
    [] p = "metadata-extraction" -> "extracted"

\* The runBeforeUpload chains over bundled plugins.
Chains == {t \in Tasks : task[t].op = "enrich"}

\* The keys of the options other than metadata are what they were.
SameOptionKeys(a, b) == a.filename = b.filename /\ a.folder = b.folder

\* The plugins of a chain whose hook wrote its key.
Writers(tk) ==
  {tk.trace[i].plugin : i \in {j \in 1..Len(tk.trace) :
                                 ~tk.trace[j].out.threw /\ ~tk.trace[j].failed}}

\* C39 as stated: every hook of a bundled plugin that returns gives the same
\* file and options with every input option key and every input metadata key
\* unchanged plus its own metadata key, so a chain of the three in any order
\* ends with metadata holding the three keys and the caller's seed metadata,
\* and getRetryConfig gives the configured maxRetries with currentAttempt 0.
C39_PluginsOnlyEnrich ==
  \A t \in Chains :
    LET tk == task[t] IN
    /\ \A i \in 1..Len(tk.trace) :
         LET e == tk.trace[i]
             in == e.options.metadata
             out == e.out.options.metadata
         IN ~e.out.threw =>
              /\ e.out.file = e.file /\ SameOptionKeys(e.out.options, e.options)
              /\ DOMAIN out = DOMAIN in \cup {OwnKey(e.plugin)}
              /\ \A k \in DOMAIN in : out[k] = in[k]
    /\ (tk.pc = "resolved" /\ Len(tk.items) = 3) =>
         LET seed == tk.options.metadata
             final == tk.ret.options.metadata
         IN /\ DOMAIN final = DOMAIN seed \cup {"_retry", "validation", "extracted"}
            /\ \A k \in DOMAIN seed : final[k] = seed[k]
            /\ GetRetryConfig(tk.ret.options).defined
            /\ GetRetryConfig(tk.ret.options).value.maxRetries = tk.cfg.retry.maxRetries.value
            /\ GetRetryConfig(tk.ret.options).value.currentAttempt = 0

\* C39, amended: every hook of a bundled plugin that returns gives the same
\* file and the same option keys other than metadata; the extraction hook
\* whose extraction failed gives the options it got; any other gives
\* metadata with the input keys, its own key set to its own value, and every
\* other key unchanged.  A chain that resolves ends with the seed keys and
\* the keys of the plugins that wrote, seed values kept under every key no
\* plugin wrote, and getRetryConfig gives the configured maxRetries with
\* currentAttempt 0 whenever the retry plugin is in the chain.
C39_PluginsEnrichOwnKey ==
  \A t \in Chains :
    LET tk == task[t] IN
    /\ \A i \in 1..Len(tk.trace) :
         LET e == tk.trace[i]
             in == e.options.metadata
             out == e.out.options.metadata
         IN ~e.out.threw =>
              /\ e.out.file = e.file /\ SameOptionKeys(e.out.options, e.options)
              /\ IF e.failed THEN e.out.options = e.options
                 ELSE /\ DOMAIN out = DOMAIN in \cup {OwnKey(e.plugin)}
                      /\ out[OwnKey(e.plugin)].by = e.plugin
                      /\ \A k \in DOMAIN in \ {OwnKey(e.plugin)} : out[k] = in[k]
    /\ tk.pc = "resolved" =>
         LET seed == tk.options.metadata
             final == tk.ret.options.metadata
             written == {OwnKey(p) : p \in Writers(tk)}
         IN /\ tk.ret.file = tk.file /\ SameOptionKeys(tk.ret.options, tk.options)
            /\ DOMAIN final = DOMAIN seed \cup written
            /\ \A k \in DOMAIN seed \ written : final[k] = seed[k]
            /\ \A k \in written : final[k].by \in BundledPlugins /\ OwnKey(final[k].by) = k
            /\ "retry" \in Range(tk.items) =>
                 /\ GetRetryConfig(tk.ret.options).defined
                 /\ GetRetryConfig(tk.ret.options).value.maxRetries =
                      tk.cfg.retry.maxRetries.value
                 /\ GetRetryConfig(tk.ret.options).value.currentAttempt = 0

\* A chain of the three plugins resolved although the extraction failed: the
\* metadata holds _retry, validation and the caller's custom key, and no
\* extracted key.
C39_Witness ==
  \E t \in Chains :
    /\ task[t].pc = "resolved" /\ Len(task[t].items) = 3
    /\ task[t].items[1] = "metadata-extraction"
    /\ "metadata-extraction" \notin Writers(task[t])
    /\ DOMAIN task[t].options.metadata = {"custom"}
    /\ DOMAIN task[t].ret.options.metadata = {"custom", "_retry", "validation"}
    /\ task[t].cfg.retry.maxRetries.value = 5

\* The withRetry calls.
RetryCalls == {t \in Tasks : task[t].op = "withRetry"}

\* The onRetry calls of a trace.
OnRetryCalls(tr) == EventsOf(tr, "onRetry")

====
